---- MODULE Spec2Model ----
(***************************************************************************)
(* A model of the PTY session of anticipate (core/src/session/session.rs): *)
(* the child writes bytes to the pseudo-terminal, the session reads them   *)
(* through a BufReader layered over a BufferedReader (the retention        *)
(* buffer) and searches them with the needle of expect / check /           *)
(* is_matched.                                                             *)
(*                                                                         *)
(* A byte is represented by its position in the child's output (1, 2, ...),*)
(* its value being Char(position); the buffers are sequences of positions, *)
(* so that order, loss and duplication of bytes are visible.               *)
(*                                                                         *)
(* Further specifications model the parse of a script (SpecParser), the    *)
(* run of a parsed script by the interpreter (SpecRun), the sleep of       *)
(* type_text (SpecDelay) and ScriptParser::interpolate (SpecInterpolate).  *)
(* The session with a logger is SpecLog, a session wrapped by log() or     *)
(* tee() SpecSwap; exec against the child is SpecExec (SpecExecLive with   *)
(* the fairness of the interpreter), the lexer of the scripts SpecLexer    *)
(* and the command line tool SpecMain.                                     *)
(***************************************************************************)
EXTENDS Integers, Sequences, FiniteSets, TLC

\* ------------------------------------------------------------------ bounds
\* The child writes at most MaxOut bytes.
MaxOut == 4
\* Capacity of the std BufReader that wraps the retention buffer (scaled down).
BufCap == 2
\* Longest buffer a caller passes to read / try_read.
MaxReadLen == 2
\* Most bytes a caller passes to write / write_vectored.
MaxWriteLen == 2
\* Most lines of a script file, and of a file it includes.
MaxLines == 4
MaxIncludedLines == 2
\* Most lines of the main file of a script that is run.
MaxScriptLines == 3
\* The width in bits that stands for the 64 of u64 and i64 (scaled down).
U64Bits == 4
\* Longest text given to interpolate.
MaxText == 3
\* The clock of one expect call advances in ticks of TickMs milliseconds,
\* at most MaxTicks of them.
TickMs == 3000
MaxTicks == 2

\* ------------------------------------------------------- program constants
\* Session::new: timeout.unwrap_or_else(|| Duration::from_millis(5000))
DefaultTimeout == 5000
\* TryStream::read_available: let mut buf = [0; 248]
ReadChunk == 248
\* Session::expect_lazy: read_available_once(&mut [0; 1])
LazyChunk == 1

\* Option<Duration>: None is the empty set, Some(t) is { t }.
None == {}
Some(t) == { t }

\* The outputs of the child: the repeated pattern, cut at MaxOut bytes.
\* "n" stands for the line end; "1", "2", "3" are the digits.
Patterns == { <<"1", "2", "3", "n">>, <<"a", "1">> }
Digits == {"1", "2", "3"}

\* The needles of the calls.
Regex == [type |-> "Regex", re |-> "\\d+"]
Eof == [type |-> "Eof"]
NBytes(n) == [type |-> "NBytes", n |-> n]
Literal(s) == [type |-> "Literal", s |-> s]
Needles == { Regex, Eof, NBytes(2), Literal(<<"1", "2">>), Literal(<<"a">>),
             Literal(<<"z">>) }
Timeouts == { None, Some(0), Some(DefaultTimeout) }

VARIABLES
    pattern,               \* what the child writes (repeated)
    emitted,               \* bytes the child has written to the PTY
    closed,                \* the child has closed its side of the PTY
    nread,                 \* bytes the session has read from the PTY
    buffer,                \* BufferedReader.buffer: the retention buffer
    bufreader,             \* the BufReader's own buffer
    expect_timeout,        \* Session.expect_timeout
    expect_lazy,           \* Session.expect_lazy
    pc,                    \* where the session's caller is
    op,                    \* the operation in progress, or the last one
    needle,                \* its needle
    checking_data_length,  \* expect_lazy's local
    elapsed,               \* start.elapsed(), in ticks
    result,                \* what the last operation returned
    delivered,             \* history: the bytes handed to the caller, in order
    call,                  \* history: the state when the operation began
    searched,              \* history: the last needle.check: the retention buffer
                           \* (data) and the end-of-file flag (eof) it was given
    blocking,              \* the stream is in blocking mode
    read_log,              \* history: the bytes offered to log_read by the
                           \* operation in progress (or just over)
    stdin,                 \* history: the bytes it wrote to the child
    write_log,             \* history: the bytes it offered to log_write
    sink_failed,           \* history: the logger's writer returned an error
                           \* during it
    logged                 \* history: the payloads of log_read since the
                           \* session began, in order, when the writer of
                           \* the logger keeps them (None: it does not)

sessionVars ==
        << pattern, emitted, closed, nread, buffer, bufreader, expect_timeout,
           expect_lazy, pc, op, needle, checking_data_length, elapsed, result,
           delivered, call, searched, blocking, read_log, stdin, write_log,
           sink_failed, logged >>

\* The parse of a script file (ScriptFile::parse).
VARIABLES
    source,                \* the lines of the script file, each by its kind
    included,              \* the lines of the file that its includes name
    status,                \* where the parse is, or how it ended
    lex,                   \* parse_file: the line of the next token
    cmd,                   \* parse_file: cmd; parse_source: the instructions
    includes,              \* parse_file: includes
    spliced                \* parse_source: the includes handled so far

parseVars == << source, included, status, lex, cmd, includes, spliced >>

\* The command line tool (main.rs: start).
VARIABLES
    args,                  \* the arguments of the Run or Record command
    main_pc,               \* the list of files start is at, or exit
    started,               \* the scripts run (or record) was called for
    running,               \* the scripts whose run has not returned
    succeeded,             \* the scripts whose run returned Ok
    erred,                \* the scripts whose run returned Err
    exit_code              \* the exit status of the process, once it has one

mainVars ==
        << args, main_pc, started, running, succeeded, erred, exit_code >>

parserVars == << parseVars, mainVars >>

\* The run of a parsed script (ScriptFile::run).
VARIABLES
    instructions,          \* self.source.borrow_instructions()
    options,               \* the InterpreterOptions of the run
    run_pc,                \* where run is, or how it returned
    pragma,                \* run: pragma
    exec_cmd,              \* run: exec_cmd
    pty,                   \* run: p, the session that session() returned
    stack,                 \* exec: its activations, the innermost last
    pty_in,                \* what the session was told to send, in order
    executed,              \* history: the instructions exec has matched
    failure,               \* history: the step whose error ended the run
    banner_matched,        \* history: p.expect(ASCIINEMA_WAIT) returned Ok
    eot_attempted          \* history: run reached its send of EOT

runVars ==
        << instructions, options, run_pc, pragma, exec_cmd, pty, stack, pty_in,
           executed, failure, banner_matched, eot_attempted >>

\* The sleep after one grapheme of type_text.
VARIABLES
    cinema_delay,          \* cinema.delay
    drift,                 \* gaussian.sample(&mut source), as a whole number
    delay                  \* type_text: delay, what sleep is called with

delayVars == << cinema_delay, drift, delay >>

\* ScriptParser::interpolate and the environment of the process.
VARIABLES
    value,                 \* interpolate: value
    env,                   \* the environment: the variables set, by name
    interpolated,          \* what runner's interpolate(value) returned
    core_interpolated,     \* what core's interpolate(value) returned
    reinterpolated         \* what interpolate(interpolated) returned

interpolateVars ==
        << value, env, interpolated, core_interpolated, reinterpolated >>

scriptVars == << runVars, delayVars, interpolateVars >>

vars == << sessionVars, parserVars, scriptVars >>

\* The command line tool is not run.
MainUnused ==
    /\ args = <<>>
    /\ main_pc = "unused"
    /\ started = <<>>
    /\ running = {}
    /\ succeeded = {}
    /\ erred = {}
    /\ exit_code = {}

\* No script is parsed.
ParserUnused ==
    /\ source = <<>>
    /\ included = <<>>
    /\ status = "unused"
    /\ lex = 1
    /\ cmd = <<>>
    /\ includes = <<>>
    /\ spliced = 0
    /\ MainUnused

\* No script is run.
RunUnused ==
    /\ instructions = <<>>
    /\ options = {}
    /\ run_pc = "unused"
    /\ pragma = {}
    /\ exec_cmd = ""
    /\ pty = {}
    /\ stack = <<>>
    /\ pty_in = <<>>
    /\ executed = <<>>
    /\ failure = "none"
    /\ banner_matched = FALSE
    /\ eot_attempted = FALSE

\* Nothing is typed.
DelayUnused ==
    /\ cinema_delay = 0
    /\ drift = 0
    /\ delay = {}

\* Nothing is interpolated.
InterpolateUnused ==
    /\ value = <<>>
    /\ env = << >>
    /\ interpolated = {}
    /\ core_interpolated = {}
    /\ reinterpolated = {}

\* ----------------------------------------------------------------- helpers
Min(a, b) == IF a < b THEN a ELSE b
Range(a, b) == [i \in 1..(b - a + 1) |-> a + i - 1]
Take(s, n) == SubSeq(s, 1, n)
Drop(s, n) == SubSeq(s, n + 1, Len(s))
Char(p) == pattern[((p - 1) % Len(pattern)) + 1]
Content(s) == [i \in 1..Len(s) |-> Char(s[i])]
SeqToSet(s) == { s[i] : i \in 1..Len(s) }

\* ------------------------------------------------------------------ needles
\* Literal: each non-overlapping occurrence of s in buf, left to right.
RECURSIVE LiteralFrom(_, _, _)
LiteralFrom(s, buf, i) ==
    IF i + Len(s) > Len(buf) THEN <<>>
    ELSE IF SubSeq(buf, i + 1, i + Len(s)) = s
         THEN << <<i, i + Len(s)>> >> \o LiteralFrom(s, buf, i + Len(s))
         ELSE LiteralFrom(s, buf, i + 1)

\* Regex \d+: every non-overlapping (leftmost, longest) run of digits.
RECURSIVE DigitRunEnd(_, _)
DigitRunEnd(buf, i) ==
    IF i < Len(buf) /\ buf[i + 1] \in Digits THEN DigitRunEnd(buf, i + 1) ELSE i

RECURSIVE RegexFrom(_, _)
RegexFrom(buf, i) ==
    IF i >= Len(buf) THEN <<>>
    ELSE IF buf[i + 1] \in Digits
         THEN << <<i, DigitRunEnd(buf, i)>> >> \o RegexFrom(buf, DigitRunEnd(buf, i))
         ELSE RegexFrom(buf, i + 1)

\* Needle::check(buf, eof): the matches, each <<start, end>> (end exclusive).
NeedleCheck(n, buf, eof) ==
    CASE n.type = "Literal" -> LiteralFrom(n.s, buf, 0)
      [] n.type = "NBytes"  -> IF Len(buf) >= n.n THEN << <<0, n.n>> >> ELSE <<>>
      [] n.type = "Regex"   -> RegexFrom(buf, 0)
      [] n.type = "Eof"     -> IF eof THEN << <<0, Len(buf)>> >> ELSE <<>>

\* Captures::right_most_index: the maximum end over the matches.
RECURSIVE right_most_index(_)
right_most_index(found) ==
    IF found = <<>> THEN 0
    ELSE LET rest == right_most_index(Tail(found))
         IN  IF found[1][2] > rest THEN found[1][2] ELSE rest

\* ------------------------------------------------------------------ results
NoResult == [kind |-> "none"]
\* Captures::new(involved_bytes, found)
Captures(bytes, found) == [kind |-> "Ok", buf |-> bytes, matches |-> found]
ErrEof == [kind |-> "Eof"]
\* The error built with the default timeout, not the session's.
ErrExpectTimeoutDefault(t, n) ==
    [kind |-> "ExpectTimeout", dur |-> Some(DefaultTimeout), desc |-> n]
\* Error::ExpectTimeout(timeout, format!("{:?}", needle))
ErrExpectTimeout(t, n) == [kind |-> "ExpectTimeout", dur |-> t, desc |-> n]
ErrWouldBlock == [kind |-> "WouldBlock"]
Matched(b) == [kind |-> "Bool", val |-> b]
ReadOk(bytes) == [kind |-> "Read", buf |-> bytes]
WriteOk(n) == [kind |-> "Write", n |-> n]
ErrIo == [kind |-> "Io"]

\* A logger whose failure is returned to the caller of the mirrored
\* operation.
log_propagates(failed, out) == IF failed THEN ErrIo ELSE out

\* PrefixLogWriter::log, StandardLogWriter::log_read / log_write:
\* `let _ = write...`; out is what the mirrored operation returns when the
\* logger's writer failed (failed) or not.
log(failed, out) == out

\* ------------------------------------------------------------ buffer layers
\* ControlledReader::keep_in_buffer
keep_in_buffer(buf, v) == buf \o v

\* A drain of the inclusive range ..=n instead of ..n.
consume_available_inclusive(buf, n) == Drop(buf, n + 1)

\* ControlledReader::consume_available
consume_available(buf, n) == Drop(buf, n)

\* ControlledReader::flush_in_buffer: the BufReader's buffer is moved to the
\* end of the retention buffer.
flush_in_buffer(buf, inner) == keep_in_buffer(buf, inner)

\* NonBlocking::set_non_blocking / set_blocking: the mode they leave.
set_non_blocking(mode) == FALSE
set_blocking(mode) == TRUE

\* A read that returns its error (`?`) before the mode is restored.
try_read_inner_early_return(mode, failed) ==
    IF failed THEN set_non_blocking(mode)
    ELSE set_blocking(set_non_blocking(mode))

\* TryStream::try_read_inner and TryStream::try_read: the mode of the stream
\* when they return; failed: the read returned an error (would block). The
\* mode is restored before the result of the read is looked at.
try_read_inner(mode, failed) ==
    LET non_blocking == set_non_blocking(mode)
    IN  set_blocking(non_blocking)

\* LogWriter::log_read: the writer is given the payload.
log_read(writer, payload) == { kept \o payload : kept \in writer }

\* The bytes pending on the PTY.
Pending == emitted - nread

\* start.elapsed() > timeout
\* (An expect without a timeout taken as one whose timeout is zero.)
TimedOutUnlimitedIsZero(ticks) ==
    \/ expect_timeout = None /\ ticks > 0
    \/ \E timeout \in expect_timeout : ticks * TickMs > timeout

TimedOut(ticks) == \E timeout \in expect_timeout : ticks * TickMs > timeout

\* The clock after one more step of the call.
Later == { elapsed } \cup { t \in { elapsed + 1 } : t <= MaxTicks }

\* The history kept when an operation begins.
CallStart(buf, inner) ==
    [ delivered |-> Len(delivered), nread |-> nread, buffer |-> buf,
      bufreader |-> inner, lazy |-> expect_lazy, timeout |-> expect_timeout ]

NoSearch == [ data |-> <<>>, eof |-> FALSE ]

NoCall == [ delivered |-> 0, nread |-> 0, buffer |-> <<>>, bufreader |-> <<>>,
            lazy |-> FALSE, timeout |-> None ]

SessionInit ==
    /\ pattern \in Patterns
    /\ emitted = 0
    /\ closed = FALSE
    /\ nread = 0
    /\ buffer = <<>>
    /\ bufreader = <<>>
    /\ expect_timeout = Some(DefaultTimeout)
    /\ expect_lazy = FALSE
    /\ pc = "idle"
    /\ op = "none"
    /\ needle = Eof
    /\ checking_data_length = 0
    /\ elapsed = 0
    /\ result = NoResult
    /\ delivered = <<>>
    /\ call = NoCall
    /\ searched = NoSearch
    /\ blocking = TRUE
    /\ read_log = {}
    /\ stdin = <<>>
    /\ write_log = <<>>
    /\ sink_failed = FALSE

Init ==
    /\ SessionInit /\ logged = None
    /\ ParserUnused /\ RunUnused /\ DelayUnused /\ InterpolateUnused

\* ---------------------------------------------------------------- the child
\* The child writes k bytes to the PTY in one write.
Emit(k) ==
    /\ ~closed
    /\ emitted + k <= MaxOut
    /\ emitted' = emitted + k
    /\ UNCHANGED << pattern, closed, nread, buffer, bufreader, expect_timeout,
                    expect_lazy, pc, op, needle, checking_data_length, elapsed,
                    result, delivered, call, searched >>
    /\ UNCHANGED << blocking, read_log, stdin, write_log, sink_failed >>
    /\ UNCHANGED << parserVars, scriptVars >>
    /\ UNCHANGED logged

\* The child exits: once the pending bytes are read, reads report end of file.
Close ==
    /\ ~closed
    /\ closed' = TRUE
    /\ UNCHANGED << pattern, emitted, nread, buffer, bufreader, expect_timeout,
                    expect_lazy, pc, op, needle, checking_data_length, elapsed,
                    result, delivered, call, searched >>
    /\ UNCHANGED << blocking, read_log, stdin, write_log, sink_failed >>
    /\ UNCHANGED << parserVars, scriptVars >>
    /\ UNCHANGED logged

\* ------------------------------------------------------------- the session
set_expect_timeout(t) ==
    /\ pc = "idle"
    /\ expect_timeout' = t
    /\ UNCHANGED << pattern, emitted, closed, nread, buffer, bufreader,
                    expect_lazy, pc, op, needle, checking_data_length, elapsed,
                    result, delivered, call, searched >>
    /\ UNCHANGED << blocking, read_log, stdin, write_log, sink_failed >>
    /\ UNCHANGED << parserVars, scriptVars >>
    /\ UNCHANGED logged

set_expect_lazy(b) ==
    /\ pc = "idle"
    /\ expect_lazy' = b
    /\ UNCHANGED << pattern, emitted, closed, nread, buffer, bufreader,
                    expect_timeout, pc, op, needle, checking_data_length, elapsed,
                    result, delivered, call, searched >>
    /\ UNCHANGED << blocking, read_log, stdin, write_log, sink_failed >>
    /\ UNCHANGED << parserVars, scriptVars >>
    /\ UNCHANGED logged

\* What a read of the PTY into m bytes can yield: some of the pending bytes,
\* 0 at end of file, nothing (would block) from a silent live child.
StreamYield(m) ==
    IF Pending > 0 THEN 1..Min(m, Pending)
    ELSE IF closed THEN { 0 } ELSE {}

\* ---- read_available, shared by expect_gready, check and is_matched
\* The call begins: read_available moves the BufReader's buffer to the
\* retention buffer (flush_in_buffer) and starts to read.
BeginReadAvailable(o, n) ==
    /\ pc = "idle"
    /\ pc' = "read_available"
    /\ op' = o
    /\ needle' = n
    /\ buffer' = flush_in_buffer(buffer, bufreader)
    /\ bufreader' = <<>>
    /\ elapsed' = 0
    /\ result' = NoResult
    /\ call' = CallStart(buffer, bufreader)
    /\ UNCHANGED << pattern, emitted, closed, nread, expect_timeout, expect_lazy,
                    checking_data_length, delivered, searched >>
    /\ read_log' = {}
    /\ UNCHANGED blocking
    /\ UNCHANGED << stdin, write_log, sink_failed >>
    /\ UNCHANGED << parserVars, scriptVars >>
    /\ UNCHANGED logged

\* TryStream::read_available, the arm Ok(n): try_read_inner yields k bytes,
\* which are kept; the loop goes on.
read_available(k) ==
    /\ pc = "read_available"
    /\ Pending > 0
    /\ k \in StreamYield(ReadChunk)
    /\ buffer' = keep_in_buffer(buffer, Range(nread + 1, nread + k))
    /\ nread' = nread + k
    /\ elapsed' \in (IF op = "expect" THEN Later ELSE { elapsed })
    /\ UNCHANGED << pattern, emitted, closed, bufreader, expect_timeout,
                    expect_lazy, pc, op, needle, checking_data_length, result,
                    delivered, call, searched >>
    /\ blocking' = try_read_inner(blocking, FALSE)
    /\ read_log' = read_log \cup SeqToSet(Range(nread + 1, nread + k))
    /\ logged' = log_read(logged, Range(nread + 1, nread + k))
    /\ UNCHANGED << stdin, write_log >>
    /\ \E failed \in BOOLEAN : sink_failed' = (sink_failed \/ failed)
    /\ UNCHANGED << parserVars, scriptVars >>

\* An expect that consumes up to the first match's end, not the rightmost.
ExpectOutcomeFirstMatch(found, data, eof, now) ==
    IF found # <<>>
    THEN Captures(Take(data, found[1][2]), found)
    ELSE IF eof THEN ErrEof
    ELSE IF TimedOut(now) THEN ErrExpectTimeout(expect_timeout, needle)
    ELSE [kind |-> "loop"]

\* What a pass of expect returns, or "loop" when it goes on.
\* found: the needle's matches in data; eof: the read reported end of file.
\* (The end of the stream looked at before the match.)
ExpectOutcomeEofFirst(found, data, eof, now) ==
    IF eof THEN ErrEof
    ELSE IF found # <<>>
    THEN Captures(Take(data, right_most_index(found)), found)
    ELSE IF TimedOut(now) THEN ErrExpectTimeout(expect_timeout, needle)
    ELSE [kind |-> "loop"]

ExpectOutcome(found, data, eof, now) ==
    IF found # <<>>
    THEN Captures(Take(data, right_most_index(found)), found)
    ELSE IF eof THEN ErrEof
    ELSE IF TimedOut(now) THEN ErrExpectTimeout(expect_timeout, needle)
    ELSE [kind |-> "loop"]

\* A failed call that throws away the bytes it searched.
RetainedDropsOnFailure(out, available, found) ==
    IF found # <<>>
    THEN consume_available(available, right_most_index(found))
    ELSE IF out.kind = "ExpectTimeout" THEN <<>> ELSE available

\* The retention buffer when expect or check returns out: the bytes up to
\* the rightmost match end are consumed on a match, none otherwise.
Retained(out, available, found) ==
    IF found # <<>>
    THEN consume_available(available, right_most_index(found))
    ELSE available

\* A prefix that grows to all the bytes available at once.
GrowPrefixToAll(len, available) == Len(available)

\* expect_lazy: the checked prefix grows by one byte while bytes are left.
GrowPrefix(len, available) ==
    IF len < Len(available) THEN len + 1 ELSE len

\* A check that reports a timeout when nothing matches.
CheckOutcomeTimeout(found, data, eof) ==
    IF found # <<>>
    THEN Captures(Take(data, right_most_index(found)), found)
    ELSE IF eof THEN ErrEof
    ELSE ErrExpectTimeout(expect_timeout, needle)

\* What check returns.
CheckOutcome(found, data, eof) ==
    IF found # <<>>
    THEN Captures(Take(data, right_most_index(found)), found)
    ELSE IF eof THEN ErrEof
    ELSE Captures(<<>>, <<>>)

\* An is_matched that answers false at end of file.
IsMatchedOutcomeNoEof(found, eof) ==
    IF found # <<>> THEN Matched(TRUE) ELSE Matched(FALSE)

\* What is_matched returns.
IsMatchedOutcome(found, eof) ==
    IF found # <<>> THEN Matched(TRUE)
    ELSE IF eof THEN ErrEof
    ELSE Matched(FALSE)

\* Session::expect
expect(n) ==
    \/ /\ ~expect_lazy
       /\ BeginReadAvailable("expect", n)
    \/ /\ expect_lazy
       /\ pc = "idle"
       /\ pc' = "expect_lazy"
       /\ op' = "expect"
       /\ needle' = n
       /\ checking_data_length' = 0
       /\ elapsed' = 0
       /\ result' = NoResult
       /\ call' = CallStart(buffer, bufreader)
       /\ UNCHANGED << pattern, emitted, closed, nread, buffer, bufreader,
                       expect_timeout, expect_lazy, delivered, searched >>
       /\ read_log' = {}
       /\ UNCHANGED blocking
       /\ UNCHANGED << stdin, write_log, sink_failed >>
       /\ UNCHANGED << parserVars, scriptVars >>
       /\ UNCHANGED logged

\* Session::expect_gready: read_available has read all there was (would
\* block, or end of file); the needle is checked against the whole retention
\* buffer; on no match, no end of file and no timeout the loop starts again.
expect_gready ==
    /\ pc = "read_available"
    /\ op = "expect"
    /\ Pending = 0
    /\ \E now \in Later :
         LET eof == closed
             data == buffer
             found == NeedleCheck(needle, Content(data), eof)
             out == ExpectOutcome(found, data, eof, now)
         IN  /\ elapsed' = now
             /\ searched' = [ data |-> data, eof |-> eof ]
             /\ IF out.kind = "loop"
                THEN /\ buffer' = flush_in_buffer(buffer, bufreader)
                     /\ UNCHANGED << pc, result, delivered >>
                ELSE /\ pc' = "done"
                     /\ result' = log(sink_failed, out)
                     /\ buffer' = Retained(out, buffer, found)
                     /\ delivered' = IF out.kind = "Ok"
                                     THEN delivered \o out.buf ELSE delivered
    /\ UNCHANGED << pattern, emitted, closed, nread, bufreader, expect_timeout,
                    expect_lazy, op, needle, checking_data_length, call >>
    /\ blocking' = try_read_inner(blocking, ~closed)
    /\ UNCHANGED read_log
    /\ UNCHANGED << stdin, write_log, sink_failed >>
    /\ UNCHANGED << parserVars, scriptVars >>
    /\ UNCHANGED logged

\* Session::expect_lazy, one iteration of its loop: when the whole retention
\* buffer has been checked one byte is read (read_available_once), then the
\* checked prefix grows by one byte.
expect_lazy_iter ==
    /\ pc = "expect_lazy"
    /\ \E now \in Later :
       \E k \in IF checking_data_length = Len(buffer)
                THEN (IF StreamYield(LazyChunk) = {} THEN { -1 }
                      ELSE StreamYield(LazyChunk))
                ELSE { -2 } :
         LET reads == checking_data_length = Len(buffer)
             eof == reads /\ k = 0
             flushed == IF reads THEN flush_in_buffer(buffer, bufreader) ELSE buffer
             available == IF reads /\ k > 0
                          THEN keep_in_buffer(flushed, Range(nread + 1, nread + k))
                          ELSE flushed
             len == GrowPrefix(checking_data_length, available)
             data == Take(available, len)
             found == NeedleCheck(needle, Content(data), eof)
             out == ExpectOutcome(found, data, eof, now)
         IN  /\ elapsed' = now
             /\ blocking' = IF reads THEN try_read_inner(blocking, k = -1)
                            ELSE blocking
             /\ searched' = [ data |-> available, eof |-> eof ]
             /\ nread' = IF reads /\ k > 0 THEN nread + k ELSE nread
             /\ bufreader' = IF reads THEN <<>> ELSE bufreader
             /\ checking_data_length' = len
             /\ IF out.kind = "loop"
                THEN /\ buffer' = available
                     /\ UNCHANGED << pc, result, delivered >>
                ELSE /\ pc' = "done"
                     /\ result' = log(sink_failed, out)
                     /\ buffer' = Retained(out, available, found)
                     /\ delivered' = IF out.kind = "Ok"
                                     THEN delivered \o out.buf ELSE delivered
    /\ UNCHANGED << pattern, emitted, closed, expect_timeout, expect_lazy, op,
                    needle, call >>
    /\ UNCHANGED read_log
    /\ UNCHANGED << stdin, write_log, sink_failed >>
    /\ UNCHANGED << parserVars, scriptVars >>
    /\ UNCHANGED logged

\* Session::check
check(n) == BeginReadAvailable("check", n)

\* Session::check after its read_available
check_done ==
    /\ pc = "read_available"
    /\ op = "check"
    /\ Pending = 0
    /\ LET eof == closed
           data == buffer
           found == NeedleCheck(needle, Content(data), eof)
           out == CheckOutcome(found, data, eof)
       IN  /\ searched' = [ data |-> data, eof |-> eof ]
           /\ pc' = "done"
           /\ result' = log(sink_failed, out)
           /\ buffer' = Retained(out, buffer, found)
           /\ delivered' = IF out.kind = "Ok" THEN delivered \o out.buf ELSE delivered
    /\ UNCHANGED << pattern, emitted, closed, nread, bufreader, expect_timeout,
                    expect_lazy, op, needle, checking_data_length, elapsed, call >>
    /\ blocking' = try_read_inner(blocking, ~closed)
    /\ UNCHANGED read_log
    /\ UNCHANGED << stdin, write_log, sink_failed >>
    /\ UNCHANGED << parserVars, scriptVars >>
    /\ UNCHANGED logged

\* Session::is_matched
is_matched(n) == BeginReadAvailable("is_matched", n)

\* Session::is_matched after its read_available
is_matched_done ==
    /\ pc = "read_available"
    /\ op = "is_matched"
    /\ Pending = 0
    /\ LET eof == closed
           found == NeedleCheck(needle, Content(buffer), eof)
       IN  /\ searched' = [ data |-> buffer, eof |-> eof ]
           /\ pc' = "done"
           /\ result' = log(sink_failed, IsMatchedOutcome(found, eof))
    /\ UNCHANGED << pattern, emitted, closed, nread, buffer, bufreader,
                    expect_timeout, expect_lazy, op, needle, checking_data_length,
                    elapsed, delivered, call >>
    /\ blocking' = try_read_inner(blocking, ~closed)
    /\ UNCHANGED read_log
    /\ UNCHANGED << stdin, write_log, sink_failed >>
    /\ UNCHANGED << parserVars, scriptVars >>
    /\ UNCHANGED logged

\* ---- reads through the BufReader
\* BufferedReader::read into m bytes: from the retention buffer when it holds
\* bytes, else k bytes from the PTY.
BufferedReader_read(m, k) ==
    IF buffer = <<>>
    THEN [got |-> Range(nread + 1, nread + k), buffer |-> <<>>, nread |-> nread + k]
    ELSE [got |-> Take(buffer, Min(m, Len(buffer))),
          buffer |-> Drop(buffer, Min(m, Len(buffer))), nread |-> nread]

\* BufReader::read into n bytes: with its buffer empty and n >= its capacity
\* it reads straight from the BufferedReader, else it fills its buffer (when
\* empty) and copies from it.
BufReader_read(n, k) ==
    IF bufreader = <<>> /\ n >= BufCap
    THEN LET r == BufferedReader_read(n, k)
         IN  [got |-> r.got, bufreader |-> <<>>, buffer |-> r.buffer, nread |-> r.nread]
    ELSE IF bufreader = <<>>
    THEN LET r == BufferedReader_read(BufCap, k)
         IN  [got |-> Take(r.got, Min(n, Len(r.got))),
              bufreader |-> Drop(r.got, Min(n, Len(r.got))),
              buffer |-> r.buffer, nread |-> r.nread]
    ELSE [got |-> Take(bufreader, Min(n, Len(bufreader))),
          bufreader |-> Drop(bufreader, Min(n, Len(bufreader))),
          buffer |-> buffer, nread |-> nread]

\* The read reaches the PTY: both buffers are empty.
ReachesStream == bufreader = <<>> /\ buffer = <<>>
\* The size of the PTY read that BufReader::read(n) then issues.
StreamReadLen(n) == IF n >= BufCap THEN n ELSE BufCap

ReadInto(o, n, k) ==
    LET r == BufReader_read(n, k)
    IN  /\ pc = "idle"
        /\ pc' = "done"
        /\ op' = o
        /\ bufreader' = r.bufreader
        /\ buffer' = r.buffer
        /\ nread' = r.nread
        /\ delivered' = delivered \o r.got
        /\ call' = CallStart(buffer, bufreader)
        /\ UNCHANGED << pattern, emitted, closed, expect_timeout, expect_lazy,
                        needle, checking_data_length, elapsed, searched >>
        /\ blocking' = IF o = "try_read" THEN try_read_inner(blocking, FALSE)
                        ELSE blocking
        /\ read_log' = IF o = "read" THEN SeqToSet(r.got) ELSE {}
        /\ logged' = IF o = "read" THEN log_read(logged, r.got) ELSE logged
        /\ UNCHANGED << stdin, write_log >>
        /\ \E failed \in (IF o = "read" THEN BOOLEAN ELSE { FALSE }) :
             /\ sink_failed' = failed
             /\ result' = log(failed, ReadOk(r.got))
        /\ UNCHANGED << parserVars, scriptVars >>

\* impl Read for Session: a blocking read, which returns once the PTY has
\* bytes or is at end of file.
read(n) ==
    \/ /\ ~ReachesStream
       /\ ReadInto("read", n, 0)
    \/ /\ ReachesStream
       /\ \E k \in StreamYield(StreamReadLen(n)) : ReadInto("read", n, k)

\* Session::try_read: the same read with the PTY non-blocking.
try_read(n) ==
    \/ /\ ~ReachesStream
       /\ ReadInto("try_read", n, 0)
    \/ /\ ReachesStream
       /\ \E k \in StreamYield(StreamReadLen(n)) : ReadInto("try_read", n, k)
    \/ /\ ReachesStream
       /\ StreamYield(StreamReadLen(n)) = {}
       /\ pc = "idle"
       /\ pc' = "done"
       /\ op' = "try_read"
       /\ result' = ErrWouldBlock
       /\ call' = CallStart(buffer, bufreader)
       /\ UNCHANGED << pattern, emitted, closed, nread, buffer, bufreader,
                       expect_timeout, expect_lazy, needle,
                       checking_data_length, elapsed, delivered, searched >>
       /\ blocking' = try_read_inner(blocking, TRUE)
       /\ read_log' = {}
       /\ UNCHANGED << stdin, write_log, sink_failed >>
       /\ UNCHANGED << parserVars, scriptVars >>
       /\ UNCHANGED logged

\* TryStream::is_empty: what it answers for the result of try_read(&mut []).
IsEmptyOutcome(r) ==
    IF r.kind = "Read" THEN Matched(Len(r.buf) = 0)   \* Ok(0): true, Ok(_): false
    ELSE Matched(TRUE)                                \* would block: true

\* Session::is_empty: a try_read into an empty buffer. The BufReader fills
\* its buffer when it is empty, and copies no byte out of it.
is_empty ==
    /\ pc = "idle"
    /\ pc' = "done"
    /\ op' = "is_empty"
    /\ call' = CallStart(buffer, bufreader)
    /\ \/ \E k \in (IF ReachesStream THEN StreamYield(StreamReadLen(0)) ELSE { 0 }) :
            LET r == BufReader_read(0, k)
            IN  /\ result' = IsEmptyOutcome(ReadOk(r.got))
                /\ bufreader' = r.bufreader
                /\ buffer' = r.buffer
                /\ nread' = r.nread
                /\ blocking' = try_read_inner(blocking, FALSE)
       \/ /\ ReachesStream
          /\ StreamYield(StreamReadLen(0)) = {}
          /\ result' = IsEmptyOutcome(ErrWouldBlock)
          /\ blocking' = try_read_inner(blocking, TRUE)
          /\ UNCHANGED << bufreader, buffer, nread >>
    /\ read_log' = {}
    /\ UNCHANGED << pattern, emitted, closed, expect_timeout, expect_lazy,
                    needle, checking_data_length, elapsed, delivered, searched,
                    stdin, write_log, sink_failed >>
    /\ UNCHANGED << parserVars, scriptVars >>
    /\ UNCHANGED logged

\* ---- writes
\* The buffers of a write: one slice, or two for a vectored write; a byte of
\* the caller is its position in the whole.
IoSlices ==
    { << Range(1, len) >> : len \in 1..MaxWriteLen }
    \cup UNION { { << Range(1, c), Range(c + 1, len) >> : c \in 1..(len - 1) } :
                  len \in 1..MaxWriteLen }

RECURSIVE Flatten(_)
Flatten(bufs) == IF bufs = <<>> THEN <<>> ELSE Head(bufs) \o Flatten(Tail(bufs))

\* What the stream accepts of a write of len bytes: a prefix, or nothing
\* (an error) once the child is gone.
StreamAccepts(len) == IF closed THEN {} ELSE 1..len

\* impl Write for TryStream, write: the bytes offered to log_write when the
\* stream took n bytes of buf.
TryStream_write(buf, n) == buf

\* impl Write for TryStream, write_vectored: nothing is offered.
TryStream_write_vectored(bufs, n) == <<>>

\* impl Write for LogStream, write: &buf[..n]
LogStream_write(buf, n) == Take(buf, n)

\* impl Write for LogStream, write_vectored: the loop over bufs that collects
\* the prefix written.
RECURSIVE LogStream_write_vectored(_, _)
LogStream_write_vectored(bufs, rest) ==
    IF bufs = <<>> THEN <<>>
    ELSE LET written == Min(Len(Head(bufs)), rest)
         IN  Take(Head(bufs), written)
             \o (IF rest - written = 0 THEN <<>>
                 ELSE LogStream_write_vectored(Tail(bufs), rest - written))

\* A write through stream o ("TryStream" or "LogStream"); vectored or not.
WriteTo(o, bufs, vectored) ==
    /\ pc = "idle"
    /\ pc' = "done"
    /\ op' = IF o = "TryStream"
             THEN (IF vectored THEN "write_vectored" ELSE "write")
             ELSE (IF vectored THEN "LogStream_write_vectored" ELSE "LogStream_write")
    /\ call' = CallStart(buffer, bufreader)
    /\ \/ /\ StreamAccepts(Len(Flatten(bufs))) = {}
          /\ result' = ErrIo
          /\ UNCHANGED << stdin, write_log, sink_failed >>
       \/ \E n \in StreamAccepts(Len(Flatten(bufs))), failed \in BOOLEAN :
            LET offered ==
                  IF o = "TryStream"
                  THEN (IF vectored THEN TryStream_write_vectored(bufs, n)
                        ELSE TryStream_write(Flatten(bufs), n))
                  ELSE (IF vectored THEN LogStream_write_vectored(bufs, n)
                        ELSE LogStream_write(Flatten(bufs), n))
                logs == o = "LogStream" \/ ~vectored
            IN  /\ stdin' = Take(Flatten(bufs), n)
                /\ write_log' = offered
                /\ sink_failed' = (logs /\ failed)
                /\ result' = log(logs /\ failed, WriteOk(n))
    /\ UNCHANGED << pattern, emitted, closed, nread, buffer, bufreader,
                    expect_timeout, expect_lazy, needle, checking_data_length,
                    elapsed, delivered, searched, blocking, read_log >>
    /\ UNCHANGED << parserVars, scriptVars >>
    /\ UNCHANGED logged

\* impl Write for Session: write and write_vectored, through TryStream
write(bufs) == Len(bufs) = 1 /\ WriteTo("TryStream", bufs, FALSE)
write_vectored(bufs) == WriteTo("TryStream", bufs, TRUE)
\* the same writes through a LogStream
LogStream_Write(bufs) == Len(bufs) = 1 /\ WriteTo("LogStream", bufs, FALSE)
LogStream_WriteVectored(bufs) == WriteTo("LogStream", bufs, TRUE)

\* The operation has returned and the caller has taken its result: the
\* locals of the call are gone.
\* What returning to the caller does to the session.
ReturnSession ==
    /\ pc = "done"
    /\ pc' = "idle"
    /\ op' = "none"
    /\ needle' = Eof
    /\ checking_data_length' = 0
    /\ elapsed' = 0
    /\ result' = NoResult
    /\ call' = NoCall
    /\ searched' = NoSearch
    /\ UNCHANGED << pattern, emitted, closed, nread, buffer, bufreader,
                    expect_timeout, expect_lazy, delivered >>
    /\ read_log' = {}
    /\ UNCHANGED blocking
    /\ stdin' = <<>>
    /\ write_log' = <<>>
    /\ sink_failed' = FALSE

Return ==
    /\ ReturnSession
    /\ UNCHANGED << parserVars, scriptVars >>
    /\ UNCHANGED logged

Next ==
    \/ \E k \in 1..MaxOut : Emit(k)
    \/ Close
    \/ \E t \in Timeouts : set_expect_timeout(t)
    \/ \E b \in BOOLEAN : set_expect_lazy(b)
    \/ \E n \in Needles : expect(n)
    \/ \E k \in 1..MaxOut : read_available(k)
    \/ expect_gready
    \/ expect_lazy_iter
    \/ \E n \in Needles : check(n)
    \/ check_done
    \/ \E n \in Needles : is_matched(n)
    \/ is_matched_done
    \/ \E n \in 1..MaxReadLen : read(n)
    \/ \E n \in 1..MaxReadLen : try_read(n)
    \/ is_empty
    \/ \E bufs \in IoSlices : write(bufs)
    \/ \E bufs \in IoSlices : write_vectored(bufs)
    \/ \E bufs \in IoSlices : LogStream_Write(bufs)
    \/ \E bufs \in IoSlices : LogStream_WriteVectored(bufs)
    \/ Return

Spec == Init /\ [][Next]_vars

\* ---- the session with a logger whose writer keeps what it is given
\* A newline is the byte n of the child's output.
Newline == "n"
\* Where the first newline of the bytes s is (0: there is none).
memchr(s) ==
    IF \E i \in 1..Len(s) : Char(s[i]) = Newline
    THEN CHOOSE i \in 1..Len(s) :
             /\ Char(s[i]) = Newline
             /\ \A j \in 1..(i - 1) : Char(s[j]) # Newline
    ELSE 0

\* BufRead::read_line on the session (std's read_until), one turn of its
\* loop: fill_buf, which TryStream::fill_buf logs whole; the bytes up to the
\* newline are taken and consumed. The BufReader fills its buffer, when it
\* is empty, with a read of the BufferedReader (k bytes when that reaches
\* the PTY).
read_line(k) ==
    /\ pc \in {"idle", "read_line"}
    /\ k \in (IF ReachesStream THEN StreamYield(BufCap) ELSE { 0 })
    /\ LET fill == IF bufreader # <<>>
                   THEN [got |-> bufreader, buffer |-> buffer, nread |-> nread]
                   ELSE BufferedReader_read(BufCap, k)
           available == fill.got
           used == IF memchr(available) > 0 THEN memchr(available)
                   ELSE Len(available)
           done == memchr(available) > 0 \/ used = 0
       IN  /\ logged' = log_read(logged, available)
           /\ read_log' = (IF pc = "idle" THEN {} ELSE read_log)
                              \cup SeqToSet(available)
           /\ bufreader' = Drop(available, used)
           /\ buffer' = fill.buffer
           /\ nread' = fill.nread
           /\ delivered' = delivered \o Take(available, used)
           /\ call' = IF pc = "idle" THEN CallStart(buffer, bufreader) ELSE call
           /\ pc' = IF done THEN "done" ELSE "read_line"
           /\ result' = IF done
                         THEN ReadOk(SubSeq(delivered', call'.delivered + 1,
                                            Len(delivered')))
                         ELSE NoResult
    /\ op' = "read_line"
    /\ UNCHANGED << pattern, emitted, closed, expect_timeout, expect_lazy,
                    needle, checking_data_length, elapsed, searched, blocking,
                    stdin, write_log, sink_failed >>
    /\ UNCHANGED << parserVars, scriptVars >>

NextLog ==
    \/ \E k \in 1..MaxOut : Emit(k)
    \/ Close
    \/ \E b \in BOOLEAN : set_expect_lazy(b)
    \/ \E n \in Needles : expect(n)
    \/ \E k \in 1..MaxOut : read_available(k)
    \/ expect_gready
    \/ expect_lazy_iter
    \/ \E n \in Needles : check(n)
    \/ check_done
    \/ \E n \in Needles : is_matched(n)
    \/ is_matched_done
    \/ \E n \in 1..MaxReadLen : read(n)
    \/ \E k \in 0..BufCap : read_line(k)
    \/ Return

InitLog ==
    /\ SessionInit /\ logged = Some(<<>>)
    /\ ParserUnused /\ RunUnused /\ DelayUnused /\ InterpolateUnused

SpecLog == InitLog /\ [][NextLog]_vars

\* ---- a session wrapped by log() or tee() (the expect crate's Session)
\* Stream::new: the timeout a new Stream is given.
StreamTimeout == 10000

\* Session::swap_stream: the retained bytes are taken, the stream is wrapped
\* and a session is built anew around it with Session::new, then given the
\* bytes with keep.
swap_stream ==
    /\ pc = "idle"
    /\ call' = CallStart(buffer, bufreader)
    /\ buffer' = keep_in_buffer(<<>>, buffer)
    /\ expect_timeout' = Some(StreamTimeout)
    /\ expect_lazy' = FALSE
    /\ logged' = Some(<<>>)
    /\ pc' = "done"
    /\ op' = "swap_stream"
    /\ result' = NoResult
    /\ UNCHANGED << pattern, emitted, closed, nread, bufreader, needle,
                    checking_data_length, elapsed, delivered, searched >>
    /\ UNCHANGED << blocking, read_log, stdin, write_log, sink_failed >>
    /\ UNCHANGED << parserVars, scriptVars >>

NextSwap ==
    \/ \E k \in 1..MaxOut : Emit(k)
    \/ Close
    \/ \E t \in Timeouts : set_expect_timeout(t)
    \/ \E b \in BOOLEAN : set_expect_lazy(b)
    \/ \E n \in Needles : is_matched(n)
    \/ \E k \in 1..MaxOut : read_available(k)
    \/ is_matched_done
    \/ swap_stream
    \/ Return

\* Session::new of the expect crate: Stream::new gives the timeout.
InitSwap ==
    /\ pattern \in Patterns
    /\ emitted = 0 /\ closed = FALSE /\ nread = 0
    /\ buffer = <<>> /\ bufreader = <<>>
    /\ expect_timeout = Some(StreamTimeout)
    /\ expect_lazy = FALSE
    /\ pc = "idle" /\ op = "none" /\ needle = Eof
    /\ checking_data_length = 0 /\ elapsed = 0
    /\ result = NoResult /\ delivered = <<>>
    /\ call = NoCall /\ searched = NoSearch
    /\ blocking = TRUE /\ read_log = {}
    /\ stdin = <<>> /\ write_log = <<>> /\ sink_failed = FALSE
    /\ logged = None
    /\ ParserUnused /\ RunUnused /\ DelayUnused /\ InterpolateUnused

SpecSwap == InitSwap /\ [][NextSwap]_vars

\* ============================================================ script parser
\* A line of a script is modelled by the kind of its token; SendLine stands
\* for every instruction that parse_file pushes without a condition.
LineKinds == {"Pragma", "Comment", "SendLine", "Include"}
\* The included file holds no include of its own.
IncludedKinds == {"Pragma", "SendLine"}
Sources(kinds, n) == UNION { [1..len -> kinds] : len \in 1..n }

\* An instruction, with the line of the source it comes from; body: the
\* instructions of the included script of an Instruction::Include.
Instruction(kind, line, body) == [kind |-> kind, line |-> line, body |-> body]
\* struct Include { path, index }
Include(index, line) == [index |-> index, line |-> line]

NoError == "none"
\* let mut cmd = Vec::new(); let mut includes = Vec::new();
NewParse == [cmd |-> <<>>, includes |-> <<>>, err |-> NoError]

\* ScriptParser::parse_file, the match on one token (of the line `line`).
ParseToken(st, kind, line) ==
    CASE kind = "Include" ->
           [st EXCEPT !.includes = Append(@, Include(Len(st.cmd), line))]
      [] kind = "Pragma" ->
           IF st.cmd # <<>> THEN [st EXCEPT !.err = "PragmaFirst"]
           ELSE [st EXCEPT !.cmd = Append(@, Instruction(kind, line, <<>>))]
      [] OTHER ->
           [st EXCEPT !.cmd = Append(@, Instruction(kind, line, <<>>))]

\* ScriptParser::parse_file on a whole file, from line p.
RECURSIVE parse_file(_, _, _)
parse_file(lines, p, st) ==
    IF st.err # NoError \/ p > Len(lines) THEN st
    ELSE parse_file(lines, p + 1, ParseToken(st, lines[p], p))

\* Vec::insert(index, x) when index < len, else Vec::push(x)
InsertOrPush(i, index, x) ==
    IF index < Len(i) THEN Take(i, index) \o << x >> \o Drop(i, index)
    ELSE Append(i, x)

ParserInit ==
    /\ source \in Sources(LineKinds, MaxLines)
    /\ included \in Sources(IncludedKinds, MaxIncludedLines)
    /\ status = "parse_file"
    /\ lex = 1
    /\ cmd = <<>>
    /\ includes = <<>>
    /\ spliced = 0
    /\ MainUnused

\* parse_file: one turn of its loop over the tokens.
parse_file_token ==
    /\ status = "parse_file"
    /\ lex <= Len(source)
    /\ LET st == ParseToken([cmd |-> cmd, includes |-> includes, err |-> NoError],
                            source[lex], lex)
       IN  /\ cmd' = st.cmd
           /\ includes' = st.includes
           /\ status' = IF st.err # NoError THEN st.err ELSE status
    /\ lex' = lex + 1
    /\ UNCHANGED << source, included, spliced >>
    /\ UNCHANGED << sessionVars, scriptVars, mainVars >>

\* parse_file returns Ok((cmd, includes)) to parse_source.
parse_file_return ==
    /\ status = "parse_file"
    /\ lex > Len(source)
    /\ status' = "parse_source"
    /\ UNCHANGED << source, included, lex, cmd, includes, spliced >>
    /\ UNCHANGED << sessionVars, scriptVars, mainVars >>

\* ScriptFile::parse_source: one turn of `for raw in includes`: the included
\* file is parsed and put at raw.index.
parse_source_include ==
    /\ status = "parse_source"
    /\ spliced < Len(includes)
    /\ LET raw == includes[spliced + 1]
           src == parse_file(included, 1, NewParse)
       IN  IF src.err # NoError
           THEN /\ status' = src.err
                /\ UNCHANGED cmd
           ELSE /\ cmd' = InsertOrPush(cmd, raw.index,
                                       Instruction("Include", raw.line, src.cmd))
                /\ UNCHANGED status
    /\ spliced' = spliced + 1
    /\ UNCHANGED << source, included, lex, includes >>
    /\ UNCHANGED << sessionVars, scriptVars, mainVars >>

\* parse_source returns Ok(source).
parse_source_return ==
    /\ status = "parse_source"
    /\ spliced = Len(includes)
    /\ status' = "Ok"
    /\ UNCHANGED << source, included, lex, cmd, includes, spliced >>
    /\ UNCHANGED << sessionVars, scriptVars, mainVars >>

NextParser ==
    \/ parse_file_token
    \/ parse_file_return
    \/ parse_source_include
    \/ parse_source_return

\* The session is not used while a script is parsed.
InitParser ==
    /\ SessionInit /\ logged = None
    /\ ParserInit /\ RunUnused /\ DelayUnused /\ InterpolateUnused

SpecParser == InitParser /\ [][NextParser]_vars

\* ============================================================== interpreter
\* The scripts that are run are those ScriptFile::parse returns.  The main
\* file has at most MaxScriptLines lines; the include directives of a file
\* all name the file of the next level, and the file of the last level is
\* one sendline.
ScriptKinds == {"Pragma", "SendLine", "Include"}
InnerScript == << "SendLine" >>

\* parse_source, `for raw in includes` from the k-th include on: src is put
\* at raw.index.
RECURSIVE splice(_, _, _, _)
splice(i, incs, k, src) ==
    IF k > Len(incs) THEN i
    ELSE splice(InsertOrPush(i, incs[k].index,
                             Instruction("Include", incs[k].line, src)),
                incs, k + 1, src)

\* ScriptFile::parse_source on files[k], whose includes name files[k + 1].
RECURSIVE parse_source(_, _)
parse_source(files, k) ==
    LET file == parse_file(files[k], 1, NewParse)
    IN  IF file.err # NoError \/ file.includes = <<>>
        THEN [err |-> file.err, instructions |-> file.cmd]
        ELSE LET src == parse_source(files, k + 1)
             IN  IF src.err # NoError THEN src
                 ELSE [err |-> NoError,
                       instructions |->
                           splice(file.cmd, file.includes, 1, src.instructions)]

\* ScriptFile::parse(path) = Ok(file): file.instructions()
ScriptFiles ==
    { parse_source(<< main, inc, InnerScript >>, 1).instructions :
        main \in { f \in Sources(LineKinds, MaxScriptLines) :
                     parse_source(<< f, InnerScript >>, 1).err = NoError },
        inc \in { f \in Sources(ScriptKinds, MaxIncludedLines) :
                     parse_source(<< f, InnerScript >>, 1).err = NoError } }

\* struct CinemaOptions, struct InterpreterOptions: the fields run reads.
CinemaOptions == [type_pragma : BOOLEAN]
InterpreterOptions ==
    [command : {"sh -noprofile -norc"}, timeout : Timeouts,
     cinema : {None} \cup { Some(c) : c \in CinemaOptions }, echo : BOOLEAN]

\* The value in a Some.
Unwrap(o) == CHOOSE x \in o : TRUE

\* ControlCode::EndOfTransmission
EndOfTransmission == "EOT"

\* let pragma = if let Some(Instruction::Pragma(cmd)) = instructions.first()
\* { Some(resolve_path(&self.path, cmd)?) } else { None }
run_pragma(instrs) ==
    IF instrs # <<>> /\ instrs[1].kind = "Pragma"
    THEN Some("pragma") ELSE None

\* let exec_cmd = if let (false, Some(pragma)) = (is_cinema, &pragma) ...
run_exec_cmd(opts, prag) ==
    IF opts.cinema = None /\ prag # None THEN Unwrap(prag) ELSE opts.command

\* Session::new(process, stream, logger, timeout)
Session_new(timeout) ==
    [expect_timeout |->
         Some(IF timeout = None THEN DefaultTimeout ELSE Unwrap(timeout)),
     expect_lazy |-> FALSE]

\* fn session(cmd, _timeout, _prompt, echo): Session::spawn(command), and
\* with echo log(pty, stdout()); neither is given a timeout.
session(command, timeout, echo) ==
    [cmd |-> command, logged |-> echo,
     expect_timeout |-> Session_new(None).expect_timeout]

\* run after session(): if options.cinema.is_some() { p.expect(ASCIINEMA_WAIT)?
AfterSessionNoWait(opts) == "exec"
AfterSession(opts) == IF opts.cinema # None THEN "banner" ELSE "exec"

\* One activation of exec: `for cmd in instructions.iter()`, at its i-th turn.
ActivationSkipsFirst(instrs) == [instructions |-> instrs, i |-> 2]
Activation(instrs) == [instructions |-> instrs, i |-> 1]

\* The instruction an activation of exec is at, by its position in each
\* enclosing list.
Path(st) == [k \in 1..Len(st) |-> st[k].i]

\* What the session is told to send: by the instruction at path `by`, the
\* text followed by a newline; typed: through type_text.
Sent(by, text, typed) == [by |-> by, text |-> text, typed |-> typed]

\* run after exec: both branches send ControlCode::EndOfTransmission.
TerminateCinemaOnly(opts) ==
    IF opts.cinema # None THEN << Sent(<<>>, EndOfTransmission, FALSE) >>
    ELSE <<>>
Terminate(opts) ==
    IF opts.cinema # None THEN << Sent(<<>>, EndOfTransmission, FALSE) >>
    ELSE << Sent(<<>>, EndOfTransmission, FALSE) >>

\* exec, the match on cmd: what it sends, if anything.
exec_sends(cmd_, by, opts, prag) ==
    CASE cmd_.kind = "Pragma" ->
           IF opts.cinema # None /\ prag # None
           THEN << Sent(by, Unwrap(prag), Unwrap(opts.cinema).type_pragma) >>
           ELSE <<>>
      [] cmd_.kind = "SendLine" -> << Sent(by, "line", opts.cinema # None) >>
      [] cmd_.kind = "Send" -> << Sent(by, "text", FALSE) >>
      [] OTHER -> <<>>

RunInit ==
    /\ instructions \in ScriptFiles
    /\ options \in InterpreterOptions
    /\ run_pc = "run"
    /\ pragma = None
    /\ exec_cmd = ""
    /\ pty = {}
    /\ stack = <<>>
    /\ pty_in = <<>>
    /\ executed = <<>>
    /\ failure = "none"
    /\ banner_matched = FALSE
    /\ eot_attempted = FALSE

\* run up to the return of session(); ok: resolve_path and session()
\* return Ok.
run_session(ok) ==
    /\ run_pc = "run"
    /\ IF ok
       THEN /\ pragma' = run_pragma(instructions)
            /\ exec_cmd' = run_exec_cmd(options, pragma')
            /\ pty' = Some(session(exec_cmd', options.timeout, options.echo))
            /\ run_pc' = AfterSession(options)
            /\ stack' = IF run_pc' = "exec" THEN << Activation(instructions) >>
                        ELSE <<>>
            /\ UNCHANGED failure
       ELSE /\ run_pc' = "Err"
            /\ failure' = "session"
            /\ UNCHANGED << pragma, exec_cmd, pty, stack >>
    /\ UNCHANGED << instructions, options, pty_in, executed, banner_matched,
                    eot_attempted >>
    /\ UNCHANGED << sessionVars, parserVars, delayVars, interpolateVars >>

\* p.expect(ASCIINEMA_WAIT)?; found: the banner is in the recorder's output
\* before the timeout of p.
expect_banner(found) ==
    /\ run_pc = "banner"
    /\ IF found
       THEN /\ banner_matched' = TRUE
            /\ run_pc' = "exec"
            /\ stack' = << Activation(instructions) >>
            /\ UNCHANGED failure
       ELSE /\ run_pc' = "Err"
            /\ failure' = "banner"
            /\ UNCHANGED << banner_matched, stack >>
    /\ UNCHANGED << instructions, options, pragma, exec_cmd, pty, pty_in,
                    executed, eot_attempted >>
    /\ UNCHANGED << sessionVars, parserVars, delayVars, interpolateVars >>

\* exec: one turn of its loop; ok: what the instruction sends is written.
\* An Include calls exec on the included instructions.
exec_instruction(ok) ==
    /\ run_pc = "exec"
    /\ LET top == stack[Len(stack)]
       IN  /\ top.i <= Len(top.instructions)
           /\ LET cmd_ == top.instructions[top.i]
                  sends == exec_sends(cmd_, Path(stack), options, pragma)
              IN  /\ executed' = Append(executed, Path(stack))
                  /\ sends = <<>> => ok
                  /\ IF ok
                     THEN /\ pty_in' = pty_in \o sends
                          /\ stack' =
                               IF cmd_.kind = "Include"
                               THEN Append(stack, Activation(cmd_.body))
                               ELSE [stack EXCEPT ![Len(stack)].i = @ + 1]
                          /\ UNCHANGED << run_pc, failure >>
                     ELSE /\ run_pc' = "Err"
                          /\ failure' = "exec"
                          /\ UNCHANGED << pty_in, stack >>
    /\ UNCHANGED << instructions, options, pragma, exec_cmd, pty,
                    banner_matched, eot_attempted >>
    /\ UNCHANGED << sessionVars, parserVars, delayVars, interpolateVars >>

\* exec returns Ok(()): to the turn of the Include that called it, or to run.
exec_return ==
    /\ run_pc = "exec"
    /\ LET top == stack[Len(stack)]
           rest == Take(stack, Len(stack) - 1)
       IN  /\ top.i > Len(top.instructions)
           /\ stack' = IF rest = <<>> THEN rest
                       ELSE [rest EXCEPT ![Len(rest)].i = @ + 1]
           /\ run_pc' = IF rest = <<>> THEN "eot" ELSE run_pc
    /\ UNCHANGED << instructions, options, pragma, exec_cmd, pty, pty_in,
                    executed, failure, banner_matched, eot_attempted >>
    /\ UNCHANGED << sessionVars, parserVars, delayVars, interpolateVars >>

\* run after exec: p.send(ControlCode::EndOfTransmission)?; Ok(())
send_eot(ok) ==
    /\ run_pc = "eot"
    /\ eot_attempted' = TRUE
    /\ IF ok
       THEN /\ pty_in' = pty_in \o Terminate(options)
            /\ run_pc' = "Ok"
            /\ UNCHANGED failure
       ELSE /\ run_pc' = "Err"
            /\ failure' = "eot"
            /\ UNCHANGED pty_in
    /\ UNCHANGED << instructions, options, pragma, exec_cmd, pty, stack,
                    executed, banner_matched >>
    /\ UNCHANGED << sessionVars, parserVars, delayVars, interpolateVars >>

NextRun ==
    \/ \E ok \in BOOLEAN : run_session(ok)
    \/ \E found \in BOOLEAN : expect_banner(found)
    \/ \E ok \in BOOLEAN : exec_instruction(ok)
    \/ exec_return
    \/ \E ok \in BOOLEAN : send_eot(ok)

\* The session model and the parse are not used while a script is run.
SessionIdle == SessionInit /\ pattern = << "a", "1" >> /\ logged = None

InitRun ==
    SessionIdle /\ ParserUnused /\ RunInit /\ DelayUnused /\ InterpolateUnused

SpecRun == InitRun /\ [][NextRun]_vars

\* ---- exec against the child: the instructions that wait or read
MaxExecLines == 2
ExecKinds == {"Expect", "Regex", "ReadLine", "Wait", "WaitPrompt", "Send"}
ExecScripts ==
    UNION { [1..n -> [kind : ExecKinds]] : n \in 1..MaxExecLines }

\* The prompt a script expects.
Prompt == Literal(<<"1", "2">>)

\* The instruction exec is at (the empty set: the list is at its end).
Current ==
    IF run_pc = "exec" /\ stack # <<>>
    THEN LET top == stack[Len(stack)]
         IN  IF top.i <= Len(top.instructions)
             THEN { top.instructions[top.i] } ELSE {}
    ELSE {}

\* Instruction::Expect(line) => p.expect(line)?, Instruction::Regex(line) =>
\* p.expect(Regex(line))?: the call is made.
exec_expect ==
    \E cmd_ \in Current :
        /\ cmd_.kind \in {"Expect", "Regex"}
        /\ BeginReadAvailable("expect",
                              IF cmd_.kind = "Expect" THEN Prompt ELSE Regex)

\* Instruction::ReadLine => p.read_line(&mut line)?
exec_read_line(k) ==
    \E cmd_ \in Current :
        /\ cmd_.kind = "ReadLine"
        /\ read_line(k)

\* The call of the session returns: `?` ends exec on an error, and the
\* loop goes on to the next instruction otherwise.
exec_result ==
    /\ run_pc = "exec"
    /\ Current # {}
    /\ ReturnSession
    /\ executed' = Append(executed, Path(stack))
    /\ IF result.kind \in {"Ok", "Read"}
       THEN /\ stack' = [stack EXCEPT ![Len(stack)].i = @ + 1]
            /\ UNCHANGED << run_pc, failure >>
       ELSE /\ run_pc' = "Err"
            /\ failure' = "exec"
            /\ UNCHANGED stack
    /\ UNCHANGED << instructions, options, pragma, exec_cmd, pty, pty_in,
                    banner_matched, eot_attempted >>
    /\ UNCHANGED << logged, parserVars, delayVars, interpolateVars >>

\* Instruction::Wait(delay) => sleep(delay), Instruction::WaitPrompt => {},
\* Instruction::Send(line) => p.send(line)?
exec_other(ok) ==
    /\ pc = "idle"
    /\ \E cmd_ \in Current : cmd_.kind \in {"Wait", "WaitPrompt", "Send"}
    /\ exec_instruction(ok)

\* The steps of the interpreter and of the session it calls.
ExecStep ==
    \/ exec_expect
    \/ \E k \in 1..MaxOut : read_available(k)
    \/ expect_gready
    \/ \E k \in 0..BufCap : exec_read_line(k)
    \/ exec_result
    \/ \E ok \in BOOLEAN : exec_other(ok)
    \/ exec_return
    \/ \E ok \in BOOLEAN : send_eot(ok)

NextExec ==
    \/ \E k \in 1..MaxOut : Emit(k)
    \/ Close
    \/ exec_expect
    \/ \E k \in 1..MaxOut : read_available(k)
    \/ expect_gready
    \/ \E k \in 0..BufCap : exec_read_line(k)
    \/ exec_result
    \/ \E ok \in BOOLEAN : exec_other(ok)
    \/ exec_return
    \/ \E ok \in BOOLEAN : send_eot(ok)

\* exec is entered: the session is spawned, with its timeout of 5 s.
InitExec ==
    /\ SessionInit /\ logged = None
    /\ ParserUnused /\ DelayUnused /\ InterpolateUnused
    /\ instructions \in ExecScripts
    /\ options \in { o \in InterpreterOptions :
                        o.cinema = None /\ o.timeout = Some(DefaultTimeout)
                        /\ ~o.echo }
    /\ run_pc = "exec"
    /\ pragma = None
    /\ exec_cmd = "sh -noprofile -norc"
    /\ pty = {}
    /\ stack = << Activation(instructions) >>
    /\ pty_in = <<>>
    /\ executed = <<>>
    /\ failure = "none"
    /\ banner_matched = FALSE
    /\ eot_attempted = FALSE

SpecExec == InitExec /\ [][NextExec]_vars

\* The interpreter runs on: sleep ends, the clock of an expect advances. The
\* child is under no obligation to write or to exit.
SpecExecLive == SpecExec /\ WF_vars(ExecStep)

\* ================================================================ type_text
\* u64 and i64 are scaled down to U64Bits bits; the sample of the Gaussian
\* is a whole number (both casts of type_text truncate toward zero).
U64Max == 2 ^ U64Bits - 1
I64Max == 2 ^ (U64Bits - 1) - 1
I64Min == -(2 ^ (U64Bits - 1))
\* The samples: every whole number a little beyond the range of u64.
Samples == (-(U64Max + 2))..(U64Max + 2)

\* f64 as u64, f64 as i64: the casts saturate.
as_u64(x) == IF x < 0 THEN 0 ELSE IF x > U64Max THEN U64Max ELSE x
as_i64(x) == IF x < I64Min THEN I64Min ELSE IF x > I64Max THEN I64Max ELSE x
\* i64::unsigned_abs, f64::abs
unsigned_abs(x) == IF x < 0 THEN -x ELSE x
abs(x) == IF x < 0 THEN -x ELSE x

\* type_text: let delay = if (drift as u64) < cinema.delay { ... }, the value
\* of the expression in whole numbers, before it is held in a u64.
type_text_delay(cinema_delay_, drift_) ==
    IF as_u64(drift_) < cinema_delay_
    THEN LET drift_i64 == as_i64(drift_)
         IN  IF drift_i64 < 0 THEN cinema_delay_ - unsigned_abs(drift_i64)
             ELSE cinema_delay_ + as_u64(drift_i64)
    ELSE cinema_delay_ + as_u64(abs(drift_))

\* What the u64 arithmetic makes of a value: itself when it is in range; out
\* of range the operation panics (overflow checks on) or wraps (off).
u64_arithmetic(x) ==
    IF x \in 0..U64Max THEN { [kind |-> "sleep", ms |-> x] }
    ELSE { [kind |-> "panic"], [kind |-> "sleep", ms |-> x % (U64Max + 1)] }

DelayInit ==
    /\ cinema_delay \in 0..U64Max
    /\ drift \in Samples
    /\ delay = None

\* type_text, one grapheme: the delay is computed and slept.
type_text ==
    /\ delay = None
    /\ \E d \in u64_arithmetic(type_text_delay(cinema_delay, drift)) :
          delay' = Some(d)
    /\ UNCHANGED << cinema_delay, drift >>
    /\ UNCHANGED << sessionVars, parserVars, runVars, interpolateVars >>

NextDelay == type_text

InitDelay ==
    SessionIdle /\ ParserUnused /\ RunUnused /\ DelayInit /\ InterpolateUnused

SpecDelay == InitDelay /\ [][NextDelay]_vars

\* ============================================================== interpolate
\* A text is a sequence of characters: $, the characters A and B of a name
\* ([a-zA-Z0-9_]) and - for every other character (a line holds no newline).
NameChars == {"A", "B"}
Alphabet == {"$", "-"} \cup NameChars
Texts == UNION { [1..len -> Alphabet] : len \in 0..MaxText }
\* The environment: the variables A and B, each unset or set.
VarNames == { << "A" >>, << "B" >> }
VarValues == { << "B" >>, << "-" >>, << "$" >>, << "$", "B" >> }
Environments == UNION { [names -> VarValues] : names \in SUBSET VarNames }

\* EnvVars::Var, [$][a-zA-Z0-9_]+: where the longest run of name characters
\* that starts at i ends (i - 1 if there is none).
RECURSIVE VarEnd(_, _)
VarEnd(v, i) ==
    IF i <= Len(v) /\ v[i] \in NameChars THEN VarEnd(v, i + 1) ELSE i - 1

\* lex.next() of the EnvVars lexer at i: the longest match wins.
EnvVars_next_shortest(v, i) ==
    IF v[i] = "$" /\ i < Len(v) /\ v[i + 1] \in NameChars
    THEN [kind |-> "Var", end |-> i + 1]
    ELSE [kind |-> "Text", end |-> i]
EnvVars_next(v, i) ==
    IF v[i] = "$" /\ VarEnd(v, i + 1) > i
    THEN [kind |-> "Var", end |-> VarEnd(v, i + 1)]
    ELSE [kind |-> "Text", end |-> i]

\* interpolate, the match on a token whose slice is v[i..token.end]
interpolate_token(v, i, token, e) ==
    LET slice == SubSeq(v, i, token.end)
    IN  IF token.kind = "Var" /\ Tail(slice) \in DOMAIN e THEN e[Tail(slice)]
        ELSE slice

\* runner's interpolate: the loop takes the next token at the end of a turn.
RECURSIVE interpolate_tokens(_, _, _, _)
interpolate_tokens(v, i, s, e) ==
    IF i > Len(v) THEN s
    ELSE LET token == EnvVars_next(v, i)
         IN  interpolate_tokens(v, token.end + 1,
                                s \o interpolate_token(v, i, token, e), e)

interpolate(v, e) ==
    IF "$" \in SeqToSet(v) THEN interpolate_tokens(v, 1, <<>>, e) ELSE v

\* core's interpolate: next_token is taken once, before the loop, and
\* next_token.take() leaves None: the loop has one turn.
core_interpolate(v, e) ==
    IF "$" \in SeqToSet(v)
    THEN interpolate_token(v, 1, EnvVars_next(v, 1), e)
    ELSE v

InterpolateInit ==
    /\ value \in Texts
    /\ env \in Environments
    /\ interpolated = None
    /\ core_interpolated = None
    /\ reinterpolated = None

\* exec, SendLine: ScriptParser::interpolate(line), of the runner's parser
Interpolate ==
    /\ interpolated = None
    /\ interpolated' = Some(interpolate(value, env))
    /\ UNCHANGED << value, env, core_interpolated, reinterpolated >>
    /\ UNCHANGED << sessionVars, parserVars, runVars, delayVars >>

\* the same call with core's parser
CoreInterpolate ==
    /\ core_interpolated = None
    /\ core_interpolated' = Some(core_interpolate(value, env))
    /\ UNCHANGED << value, env, interpolated, reinterpolated >>
    /\ UNCHANGED << sessionVars, parserVars, runVars, delayVars >>

\* interpolate is called on what it returned
InterpolateAgain ==
    /\ interpolated # None
    /\ reinterpolated = None
    /\ reinterpolated' = Some(interpolate(Unwrap(interpolated), env))
    /\ UNCHANGED << value, env, interpolated, core_interpolated >>
    /\ UNCHANGED << sessionVars, parserVars, runVars, delayVars >>

NextInterpolate ==
    \/ Interpolate
    \/ CoreInterpolate
    \/ InterpolateAgain

InitInterpolate ==
    SessionIdle /\ ParserUnused /\ RunUnused /\ DelayUnused /\ InterpolateInit

SpecInterpolate == InitInterpolate /\ [][NextInterpolate]_vars

\* ================================================================== claims
\* The bytes the session holds, in the order its reads deliver them: the
\* BufReader's buffer first, then the retention buffer.
Held == bufreader \o buffer
\* The bytes read from the PTY during the call in progress (or just over).
ReadDuringCall == Range(call.nread + 1, nread)
ExpectReturned == pc = "done" /\ op = "expect"

\* C1: every successful expect (eager or lazy) removes exactly
\* right_most_index(matches) bytes from the front of the retention buffer and
\* hands them to the caller, and the next read starts at the byte right after
\* the rightmost match end.
C1_ExpectConsumesToRightMost ==
    (ExpectReturned /\ result.kind = "Ok") =>
        LET e == right_most_index(result.matches)
        IN  /\ result.buf = Take(searched.data, e)
            /\ buffer = Drop(searched.data, e)
            /\ Len(delivered) = call.delivered + e
            /\ e < Len(searched.data) => Head(Held) = searched.data[e + 1]

\* C2: bytes are held and delivered in the order the child wrote them: the
\* bytes handed to the caller, then the BufReader's buffer, then the
\* retention buffer are the bytes read so far, in stream order.
C2_StreamOrder == delivered \o Held = Range(1, nread)

\* C3: no byte is lost or duplicated: every byte read from the PTY is held by
\* the session or has been handed to the caller, exactly once; a Captures or
\* read result carries exactly the bytes its call handed over.
C3_NoByteLost ==
    /\ Len(delivered \o Held) = nread
    /\ SeqToSet(delivered \o Held) = 1..nread
    /\ (pc = "done" /\ result.kind \in {"Ok", "Read"}) =>
           delivered = Take(delivered, call.delivered) \o result.buf
    /\ (pc = "done" /\ result.kind \notin {"Ok", "Read"}) =>
           Len(delivered) = call.delivered

\* C3 witness: a match has handed bytes to a caller that held bytes already,
\* and bytes are left in the retention buffer.
C3_Witness ==
    /\ pc = "done" /\ result.kind = "Ok" /\ result.buf # <<>>
    /\ Len(delivered) > Len(result.buf)
    /\ buffer # <<>>

\* The first match of a Captures, as characters.
FirstMatch(r) == Content(SubSeq(r.buf, r.matches[1][1] + 1, r.matches[1][2]))
\* The call began on a session that had read nothing yet.
FreshCall == call.nread = 0
ChildWrites123 == pattern = <<"1", "2", "3", "n">>
EagerReturned == ExpectReturned /\ ~call.lazy
LazyReturned == ExpectReturned /\ call.lazy

C5_LazyFirstPrefix ==
    (LazyReturned /\ result.kind = "Ok") =>
        LET len == checking_data_length
            data == Take(searched.data, len)
        IN  /\ result.matches = NeedleCheck(needle, Content(data), searched.eof)
            /\ \A j \in 1..(len - 1) :
                   NeedleCheck(needle, Content(Take(searched.data, j)), FALSE) = <<>>
            /\ result.buf = Take(data, right_most_index(result.matches))
            /\ buffer = Drop(searched.data, Len(result.buf))
            /\ (needle = Regex /\ ChildWrites123 /\ FreshCall) =>
                   /\ Content(result.buf) = <<"1">>
                   /\ delivered = <<1>>

\* C5 witness: the lazy expect returns 1 although 2 and 3 had been written.
C5_Witness ==
    /\ LazyReturned /\ result.kind = "Ok" /\ needle = Regex
    /\ ChildWrites123 /\ FreshCall
    /\ Content(result.buf) = <<"1">> /\ emitted >= 3

\* An expect is in progress.
ExpectRunning == op = "expect" /\ pc \in {"read_available", "expect_lazy"}

\* C6: an expect with a finite timeout does not keep waiting past the
\* timeout: it is never still reading more than one clock tick after the
\* timeout elapsed, whether the child is silent or keeps writing.
C6_NoWaitPastTimeout == ExpectRunning => ~TimedOut(elapsed - 1)

C8_TimeoutConsumesNothing ==
    (ExpectReturned /\ result.kind = "ExpectTimeout") =>
        /\ Len(delivered) = call.delivered
        /\ Len(Held) = Len(call.buffer) + Len(call.bufreader) + Len(ReadDuringCall)
        /\ Len(buffer) >= Len(call.buffer) + Len(ReadDuringCall)
        /\ Drop(buffer, Len(buffer) - Len(ReadDuringCall)) = ReadDuringCall
        /\ Take(buffer, Len(call.buffer)) = call.buffer
        /\ SeqToSet(Held) = SeqToSet(call.buffer) \cup SeqToSet(call.bufreader)
                               \cup SeqToSet(ReadDuringCall)

\* C8 witness: a timed-out expect had read bytes.
C8_Witness ==
    /\ ExpectReturned /\ result.kind = "ExpectTimeout"
    /\ ReadDuringCall # <<>> /\ call.buffer # <<>>

\* C9: check never returns ExpectTimeout; it returns Ok with empty Captures
\* exactly when the needle has no match in the bytes of its one read pass and
\* the pass did not see end of file, and then it removes no byte: the
\* retention buffer holds what was held and what the pass read.
C9_CheckDoesNotWait ==
    (pc = "done" /\ op = "check") =>
        LET found == NeedleCheck(needle, Content(searched.data), searched.eof)
            empty == result = Captures(<<>>, <<>>)
        IN  /\ result.kind \in {"Ok", "Eof"}
            /\ searched.data = call.buffer \o call.bufreader \o ReadDuringCall
            /\ empty <=> (found = <<>> /\ ~searched.eof)
            /\ empty => /\ buffer = searched.data
                        /\ Len(delivered) = call.delivered

\* C9 witness: a check found nothing in the bytes it read and kept them.
C9_Witness ==
    /\ pc = "done" /\ op = "check" /\ result = Captures(<<>>, <<>>)
    /\ ReadDuringCall # <<>> /\ buffer # <<>>

\* C10: is_matched removes no byte: after it returns true or false, the bytes
\* held before the call and the bytes it read are delivered, in that order,
\* by the reads that follow.
C10_IsMatchedKeepsBytes ==
    (pc = "done" /\ op = "is_matched" /\ result.kind = "Bool") =>
        /\ Len(delivered) = call.delivered
        /\ Held = call.bufreader \o call.buffer \o ReadDuringCall

\* A call that searches (expect, check, is_matched) has returned.
SearchReturned == pc = "done" /\ op \in {"expect", "check", "is_matched"}
\* The bytes given to the last needle.check of the call: the whole retention
\* buffer, or for the lazy expect its checked prefix.
Checked ==
    IF op = "expect" /\ call.lazy
    THEN Take(searched.data, checking_data_length)
    ELSE searched.data

\* C11: when the stream reports end of file and the needle has no match in
\* the bytes held, expect (eager and lazy), check and is_matched return the
\* error Eof on that pass: no timeout, no empty Captures, no false.
C11_EofWithoutMatch ==
    (SearchReturned /\ searched.eof
        /\ NeedleCheck(needle, Content(searched.data), TRUE) = <<>>) =>
        result = ErrEof

\* C11 witness: is_matched met end of file with unmatched bytes held.
C11_Witness ==
    /\ pc = "done" /\ op = "is_matched" /\ searched.eof
    /\ searched.data # <<>> /\ result = ErrEof

\* The subsequence of s whose elements are not in the set gone.
RECURSIVE Without(_, _)
Without(s, gone) ==
    IF s = <<>> THEN <<>>
    ELSE IF Head(s) \in gone THEN Without(Tail(s), gone)
    ELSE <<Head(s)>> \o Without(Tail(s), gone)

\* The child's output that no call had consumed when the call began.
Unconsumed == Without(Range(1, emitted), SeqToSet(Take(delivered, call.delivered)))

\* C12: expect(Eof) on a child that wrote output and closed its stream
\* returns one match that covers all the output not yet consumed, with
\* nothing before it, and leaves the retention buffer empty, in eager and in
\* lazy mode.
C12_ExpectEofTakesAll ==
    (ExpectReturned /\ needle = Eof /\ result.kind = "Ok") =>
        /\ closed
        /\ result.matches = << <<0, Len(result.buf)>> >>
        /\ result.buf = Unconsumed
        /\ Held = <<>>

\* C13: every non-blocking read path (try_read, read_available,
\* read_available_once) leaves the stream in blocking mode when it returns,
\* also when the read failed with would-block: the stream is in blocking mode
\* whenever the session is between two reads.
C13_BlockingRestored == blocking

\* C13 witness: non-blocking reads that would block have returned, from
\* try_read and from the read pass of an expect.
C13_Witness ==
    /\ blocking /\ pc = "done"
    /\ \/ result = ErrWouldBlock
       \/ result.kind = "ExpectTimeout"

\* The bytes that the operation just over read from the stream and searched
\* or handed to the caller.
ReadAndUsed ==
    IF op \in {"expect", "check", "is_matched"} THEN SeqToSet(ReadDuringCall)
    ELSE IF result.kind = "Read"
         THEN SeqToSet(ReadDuringCall) \cap SeqToSet(result.buf)
         ELSE {}

\* C14: with a logger attached, every byte that an operation reads from the
\* child is offered to log_read, whichever operation read it: eager expect,
\* lazy expect, check, is_matched, read, try_read.
C14_ReadsAreLogged == pc = "done" => ReadAndUsed \subseteq read_log

\* A write has returned the number of bytes the stream took.
WriteOps == {"write", "write_vectored", "LogStream_write", "LogStream_write_vectored"}
WriteReturned == pc = "done" /\ op \in WriteOps /\ result.kind = "Write"

\* C15: with a logger attached, every successful write is offered to
\* log_write with exactly the bytes that were written to the child: for a
\* partial or a vectored write the prefix written, never more.
C15_WriteLogIsWhatWasWritten == WriteReturned => write_log = stdin

\* C16: a failing log sink never changes the outcome of a session operation:
\* when the logger's writer returned an error during a read or a write, the
\* operation returns the result and leaves the buffers that it would with no
\* logger attached.
C16_LogFailureSwallowed ==
    (pc = "done" /\ sink_failed) =>
        LET found == NeedleCheck(needle, Content(Checked), searched.eof)
        IN  CASE op = "expect" ->
                   /\ result = ExpectOutcome(found, Checked, searched.eof, elapsed)
                   /\ buffer = Retained(result, searched.data, found)
              [] op = "check" ->
                   /\ result = CheckOutcome(found, Checked, searched.eof)
                   /\ buffer = Retained(result, searched.data, found)
              [] op = "is_matched" ->
                   /\ result = IsMatchedOutcome(found, searched.eof)
                   /\ buffer = searched.data
              [] op = "read" ->
                   /\ result.kind = "Read"
                   /\ delivered = Take(delivered, call.delivered) \o result.buf
              [] op \in WriteOps -> result = WriteOk(Len(stdin))
              [] OTHER -> TRUE

\* C16 witness: an expect whose reads could not be logged has returned its
\* match.
C16_Witness ==
    /\ pc = "done" /\ sink_failed /\ op = "expect"
    /\ result.kind = "Ok" /\ read_log # {}

\* C17: is_empty returns false whenever an unread byte is available to the
\* session, held in its buffers or pending on the stream, and true only when
\* none is: when it returns, its answer is true exactly when the session
\* holds no byte (a pending byte has been fetched by its read).
C17_IsEmptyTellsBytes ==
    (pc = "done" /\ op = "is_empty") => (result.val <=> Held = <<>>)

\* C18: for a file with any number of includes and any instructions between
\* them, the parsed tree has each Include node at the position of its
\* directive: the instructions of the tree are in the order of the source
\* lines they come from.
C18_IncludesInSourceOrder ==
    status = "Ok" =>
        \A i, j \in 1..Len(cmd) : i < j => cmd[i].line < cmd[j].line

\* C19: in every tree that the parse returns a Pragma, if present, is the
\* first instruction of the top-level tree, and a source in which another
\* instruction or directive precedes the pragma is rejected with PragmaFirst.
C19_PragmaIsFirst ==
    /\ status = "Ok" =>
           \A i \in 1..Len(cmd) : cmd[i].kind = "Pragma" => i = 1
    /\ (status \in {"Ok", "parse_source"}) =>
           \A p \in 1..Len(source) : source[p] = "Pragma" => p = 1

\* C20: a parse of a file that includes a file with a Pragma at any position
\* fails: no returned tree has a Pragma inside an Include subtree.
C20_NoPragmaInInclude ==
    status = "Ok" =>
        \A i \in 1..Len(cmd) :
            \A k \in 1..Len(cmd[i].body) : cmd[i].body[k].kind # "Pragma"

\* ------------------------------------------------------- claims of the run
\* The instructions of a tree, each by its path, depth-first: an Include
\* first, then the instructions it includes, then what follows it.
RECURSIVE Preorder(_, _, _)
Preorder(instrs, prefix, k) ==
    IF k > Len(instrs) THEN <<>>
    ELSE << Append(prefix, k) >>
         \o (IF instrs[k].kind = "Include"
             THEN Preorder(instrs[k].body, Append(prefix, k), 1) ELSE <<>>)
         \o Preorder(instrs, prefix, k + 1)
TreeOrder == Preorder(instructions, <<>>, 1)
IsCinema == options.cinema # None
FirstIsPragma == instructions # <<>> /\ instructions[1].kind = "Pragma"
\* The positions of pty_in at which the text t was sent.
SentAt(t) == { k \in 1..Len(pty_in) : pty_in[k].text = t }

\* C21: exec takes the instructions in tree order, depth-first, each once:
\* at every moment the instructions executed are a prefix of the depth-first
\* order of the tree, and when exec has returned Ok they are all of it.
C21_DepthFirstOnce ==
    /\ Len(executed) <= Len(TreeOrder)
    /\ executed = Take(TreeOrder, Len(executed))
    /\ run_pc \in {"eot", "Ok"} => executed = TreeOrder

\* A run that succeeded on a tree with an Include that another instruction
\* follows, the included instructions holding an Include themselves.
C21_Witness ==
    /\ run_pc = "Ok"
    /\ \E k \in 1..(Len(instructions) - 1) :
          /\ instructions[k].kind = "Include"
          /\ \E j \in 1..Len(instructions[k].body) :
                instructions[k].body[j].kind = "Include"

\* C22: the command spawned is the resolved pragma exactly when the first
\* instruction is a Pragma and the run does not record, else options.command;
\* a recording run that succeeds has sent the resolved pragma once (when
\* there is one), and a run that does not record never sends it.
C22_PragmaCommand ==
    /\ pty # {} =>
          Unwrap(pty).cmd = IF FirstIsPragma /\ ~IsCinema THEN "pragma"
                            ELSE options.command
    /\ (run_pc = "Ok" /\ IsCinema) =>
          Cardinality(SentAt("pragma")) = IF FirstIsPragma THEN 1 ELSE 0
    /\ ~IsCinema => SentAt("pragma") = {}

\* C23: a recording run sends nothing before the banner of the recorder was
\* matched, and a run whose wait for the banner failed has failed with
\* nothing sent.
C23_BannerBeforeBytes ==
    /\ (IsCinema /\ pty_in # <<>>) => banner_matched
    /\ failure = "banner" => (run_pc = "Err" /\ pty_in = <<>>)

\* A recording run has sent the bytes of an instruction after the banner.
C23_Witness == IsCinema /\ banner_matched /\ pty_in # <<>>

C25_EotAttemptedOnFailure ==
    (run_pc = "Err" /\ failure = "exec") => eot_attempted

\* C26: a run that does not record and whose child is the pragma script
\* returns Ok although the final send of EOT failed.
C26_EotErrorIgnored ==
    (failure = "eot" /\ ~IsCinema /\ pragma # None) => run_pc = "Ok"

\* C27: the session of a run has the expect_timeout that the options of the
\* run configure, echoed or not.
C27_SessionTimeout ==
    pty # {} => Unwrap(pty).expect_timeout = options.timeout

\* --------------------------------------------------- claims of type_text
\* C28: the sleep after a grapheme is computed without underflow or
\* overflow and is not negative, whatever cinema.delay and the sample are.
C28_DelayInRange ==
    delay # None =>
        /\ type_text_delay(cinema_delay, drift) \in 0..U64Max
        /\ Unwrap(delay) =
               [kind |-> "sleep", ms |-> type_text_delay(cinema_delay, drift)]

\* ------------------------------------------------- claims of interpolate
\* How many name characters a text begins with.
RECURSIVE NameLen(_)
NameLen(t) ==
    IF t # <<>> /\ Head(t) \in NameChars THEN 1 + NameLen(Tail(t)) ELSE 0
\* What C29 describes: each maximal $NAME is replaced by the value of NAME
\* when NAME is set and kept when it is not; every other character is kept.
RECURSIVE Substituted(_, _)
Substituted(t, e) ==
    IF t = <<>> THEN <<>>
    ELSE LET n == NameLen(Tail(t))
         IN  IF Head(t) = "$" /\ n > 0
             THEN (IF SubSeq(t, 2, n + 1) \in DOMAIN e
                   THEN e[SubSeq(t, 2, n + 1)] ELSE SubSeq(t, 1, n + 1))
                  \o Substituted(SubSeq(t, n + 2, Len(t)), e)
             ELSE << Head(t) >> \o Substituted(Tail(t), e)

\* C29: interpolate(text), of the runner's parser and of core's, returns
\* the text with each maximal $NAME replaced by the value of NAME when it is
\* set, every other character being copied in order; a text without $ is
\* returned as it is.
C29_InterpolateSubstitutes ==
    /\ interpolated # None =>
          Unwrap(interpolated) = Substituted(value, env)
    /\ core_interpolated # None =>
          Unwrap(core_interpolated) = Substituted(value, env)
    /\ (interpolated # None /\ "$" \notin SeqToSet(value)) =>
          Unwrap(interpolated) = value

\* A $NAME form starts at i.
VarStart(t, i) == t[i] = "$" /\ i < Len(t) /\ t[i + 1] \in NameChars
\* No value of the environment contains a $NAME form.
NoVarInValues ==
    \A n \in DOMAIN env :
        \A i \in 1..Len(env[n]) : ~VarStart(env[n], i)
\* No $NAME of the text comes right after a $ or right after another $NAME.
VarsSeparated ==
    \A i \in 1..Len(value) :
        VarStart(value, i) =>
            /\ ~(i > 1 /\ value[i - 1] = "$")
            /\ ~\E j \in 1..(i - 2) :
                    /\ value[j] = "$"
                    /\ \A k \in (j + 1)..(i - 1) : value[k] \in NameChars

MaxPieces == 3
Pieces ==
    { <<"#">>, <<"$">>, <<"!">>, <<" ">>, <<"\n">>, <<"x">>,
      <<"#", "$", " ">>, <<"w", "a", "i", "t">>,
      <<"s", "e", "n", "d", "l", "i", "n", "e", " ">> }

RECURSIVE Flat(_)
Flat(pieces) ==
    IF pieces = <<>> THEN <<>> ELSE Head(pieces) \o Flat(Tail(pieces))

\* The scripts: up to MaxPieces pieces, end to end.
Scripts ==
    { Flat(ps) : ps \in UNION { [1..n -> Pieces] : n \in 1..MaxPieces } }

Blanks == { " " }                  \* [\t ]
Whitespace == { " ", "\n" }        \* \s
Hashes == { "#" }

\* The character at i (the empty string: the end of the source).
At(s, i) == IF i >= 1 /\ i <= Len(s) THEN s[i] ELSE ""
\* . matches any character but the newline.
Dot(c) == c \notin { "", "\n" }
\* How many characters from i on are of the set.
Run(s, i, set) ==
    CHOOSE k \in 0..(Len(s) + 1) :
        /\ \A j \in i..(i + k - 1) : At(s, j) \in set
        /\ At(s, i + k) \notin set
\* The word is at i.
Lit(s, i, word) == \A j \in 1..Len(word) : At(s, i + j - 1) = word[j]

\* The length of the match of each token at i (0: it does not match).
\* #![^\n]+
PragmaLen(s, i) ==
    IF Lit(s, i, <<"#", "!">>) /\ Dot(At(s, i + 2))
    THEN 2 + Run(s, i + 2, { c \in SeqToSet(s) : Dot(c) })
    ELSE 0
\* #[$]\s+ followed by the keyword
KeywordEnd(s, i, word) ==
    LET ws == Run(s, i + 2, Whitespace)
    IN  IF Lit(s, i, <<"#", "$">>) /\ ws >= 1 /\ Lit(s, i + 2 + ws, word)
        THEN 2 + ws + Len(word) ELSE 0
\* #[$]\s+sendline\s
SendLineLen(s, i) ==
    LET n == KeywordEnd(s, i, <<"s", "e", "n", "d", "l", "i", "n", "e">>)
    IN  IF n > 0 /\ At(s, i + n) \in Whitespace THEN n + 1 ELSE 0
\* #[$]\s+wait\s*
WaitLen(s, i) ==
    LET n == KeywordEnd(s, i, <<"w", "a", "i", "t">>)
    IN  IF n > 0 THEN n + Run(s, i + n, Whitespace) ELSE 0
\* #[$].?
CommandLen(s, i) ==
    IF Lit(s, i, <<"#", "$">>)
    THEN (IF Dot(At(s, i + 2)) THEN 3 ELSE 2) ELSE 0
\* \r?\n
NewlineLen(s, i) == IF At(s, i) = "\n" THEN 1 ELSE 0
\* #*. at q: every # and a character after them, or the last # as the dot.
HashesDot(s, q) ==
    LET r == Run(s, q, Hashes)
    IN  IF Dot(At(s, q + r)) THEN r + 1 ELSE r
\* (\t| )*#[^$!]?#*.
CommentLen(s, i) ==
    LET b == Run(s, i, Blanks)
        p == i + b + 1
        without == HashesDot(s, p)
        with == IF At(s, p) \notin { "", "$", "!" }
                THEN HashesDot(s, p + 1) ELSE 0
    IN  IF At(s, i + b) # "#" THEN 0
        ELSE IF with > 0 /\ with + 1 >= without THEN b + 1 + 1 + with
        ELSE IF without > 0 THEN b + 1 + without
        ELSE 0
\* (.|[\t ]+)
TextLen(s, i) ==
    IF At(s, i) \in Blanks THEN Run(s, i, Blanks)
    ELSE IF Dot(At(s, i)) THEN 1 ELSE 0

\* The tokens, those of the higher priority first.
TokenKinds ==
    << "Pragma", "SendLine", "Wait", "Command", "Newline", "Comment", "Text" >>
TokenLen(s, i, kind) ==
    CASE kind = "Pragma" -> PragmaLen(s, i)
      [] kind = "SendLine" -> SendLineLen(s, i)
      [] kind = "Wait" -> WaitLen(s, i)
      [] kind = "Command" -> CommandLen(s, i)
      [] kind = "Newline" -> NewlineLen(s, i)
      [] kind = "Comment" -> CommentLen(s, i)
      [] OTHER -> TextLen(s, i)

\* The longest of the matches, and among those the first in TokenKinds.
Longest(lens) ==
    LET best == CHOOSE k \in DOMAIN lens :
                    /\ \A j \in DOMAIN lens : lens[j] <= lens[k]
                    /\ \A j \in 1..(k - 1) : lens[j] < lens[k]
    IN  [kind |-> TokenKinds[best], len |-> lens[best]]

\* lex.next(): the token at i.
lex_next(s, i) ==
    Longest([k \in 1..Len(TokenKinds) |-> TokenLen(s, i, TokenKinds[k])])

\* parse_text: the match on a token, the lexer being at p before it.
parse_text_match(token, p, scan) ==
    IF token.kind = "Text" THEN scan[p + token.len]
    ELSE [finish |-> p - 1, pos |-> p + token.len]

\* parse_text, the lexer being at p: the Text tokens that follow are taken;
\* the token that ends them is taken from the lexer too, and dropped.
\* finish is the last character of the text, pos where the lexer is left.
parse_text(s, from) ==
    LET scan[p \in 1..(Len(s) + 1)] ==
            IF p > Len(s) THEN [finish |-> p - 1, pos |-> p]
            ELSE parse_text_match(lex_next(s, p), p, scan)
    IN  scan[from]

Parsed(kind, text) == [kind |-> kind, text |-> text]
\* The loop of parse_file goes on, the lexer being at pos.
ParseOn(pos, instrs) == [status |-> "lexer", cmd |-> instrs, lex |-> pos]
\* return Err(..): no instruction is returned.
ParseError(err, pos) == [status |-> err, cmd |-> <<>>, lex |-> pos]

\* The arms of the match of parse_file: the token is at p and ends before q,
\* rest is what parse_text returns from there, cmd holds acc.
parse_file_arm(s, p, acc, kind, q, rest) ==
    CASE kind = "Command" -> ParseError("UnknownInstruction", rest.pos)
      [] kind = "Comment" ->
           ParseOn(rest.pos,
               Append(acc, Parsed("Comment", SubSeq(s, p, rest.finish))))
      [] kind = "Wait" -> ParseOn(q, Append(acc, Parsed("Wait", <<>>)))
      [] kind = "Pragma" ->
           IF acc # <<>> THEN ParseError("PragmaFirst", q)
           ELSE ParseOn(q, Append(acc, Parsed("Pragma", SubSeq(s, p + 2, q - 1))))
      [] kind = "SendLine" ->
           ParseOn(rest.pos,
               Append(acc, Parsed("SendLine", SubSeq(s, q, rest.finish))))
      [] kind = "Text" ->
           IF Lit(SubSeq(s, p, rest.finish), 1, <<"#", "$">>)
           THEN ParseError("UnknownInstruction", rest.pos)
           ELSE ParseOn(rest.pos,
                    Append(acc, Parsed("SendLine", SubSeq(s, p, rest.finish))))
      [] OTHER -> ParseOn(q, acc)

\* One turn of the loop of parse_file on the token.
parse_file_token_at(s, p, acc, token) ==
    parse_file_arm(s, p, acc, token.kind, p + token.len,
                   parse_text(s, p + token.len))

parse_file_match(s, p, acc) == parse_file_token_at(s, p, acc, lex_next(s, p))

\* while let Some(token) = next_token.take() { match token { ... } }
parse_file_turn ==
    /\ status = "lexer"
    /\ lex <= Len(source)
    /\ LET out == parse_file_match(source, lex, cmd)
       IN  /\ status' = out.status
           /\ cmd' = out.cmd
           /\ lex' = out.lex
    /\ UNCHANGED << source, included, includes, spliced >>
    /\ UNCHANGED << sessionVars, scriptVars, mainVars >>

\* The lexer is at the end of the source: Ok((cmd, includes)).
parse_file_end ==
    /\ status = "lexer"
    /\ lex > Len(source)
    /\ status' = "Ok"
    /\ UNCHANGED << source, included, lex, cmd, includes, spliced >>
    /\ UNCHANGED << sessionVars, scriptVars, mainVars >>

NextLexer ==
    \/ parse_file_turn
    \/ parse_file_end

\* ScriptParser::parse(source): parse_file is entered.
InitLexer ==
    /\ SessionIdle
    /\ source \in Scripts
    /\ included = <<>> /\ status = "lexer" /\ lex = 1
    /\ cmd = <<>> /\ includes = <<>> /\ spliced = 0
    /\ MainUnused
    /\ RunUnused /\ DelayUnused /\ InterpolateUnused

SpecLexer == InitLexer /\ [][NextLexer]_vars

\* ============================================================= command line
\* Command::Run and Command::Record of start: the files of --setup, the
\* input files and the files of --teardown, each list run in its turn. The
\* files exist (check_files), so that what is left of a run is how it
\* returns.
MaxInputs == 2
InputNames == << "a", "b", "c" >>
Arguments ==
    [ parallel : BOOLEAN,
      setup : { <<>>, << "setup" >> },
      input : { Take(InputNames, n) : n \in 1..MaxInputs },
      teardown : { <<>>, << "teardown" >> } ]

Lists == << "setup", "input", "teardown" >>

\* The files of the list start is at.
Files(list) ==
    CASE list = "setup" -> args.setup
      [] list = "input" -> args.input
      [] list = "teardown" -> args.teardown
      [] OTHER -> <<>>

\* What follows a list.
After(list) ==
    CASE list = "setup" -> "input"
      [] list = "input" -> "teardown"
      [] OTHER -> "exit"

\* files.par_iter().for_each(...) against for (input_file, file_name) in files
InParallel == main_pc = "input" /\ args.parallel

\* (An error of run that is dropped.)
PropagatesNever(ok) == FALSE

\* run(...)?, and Err(e) => fail(e): the error of a run ends start.
Propagates(ok) == ~ok

MainInit ==
    /\ args \in Arguments
    /\ main_pc = "setup"
    /\ started = <<>>
    /\ running = {}
    /\ succeeded = {}
    /\ erred = {}
    /\ exit_code = None

\* run or record is called for the file f: for the next file of the list,
\* the one before it having returned, or by a thread of the pool for any
\* file of the list that none has taken.
run_call(f) ==
    /\ main_pc \in SeqToSet(Lists)
    /\ LET files == Files(main_pc)
           taken == { i \in 1..Len(files) : files[i] \in SeqToSet(started) }
       IN  /\ \E i \in 1..Len(files) :
                /\ files[i] = f
                /\ i \notin taken
                /\ InParallel \/ (running = {} /\ taken = 1..(i - 1))
    /\ started' = Append(started, f)
    /\ running' = running \cup { f }
    /\ UNCHANGED << args, main_pc, succeeded, erred, exit_code >>
    /\ UNCHANGED << sessionVars, parseVars, scriptVars >>

\* run or record returns for the file f. Its error is passed up by `?` to
\* main, which calls fail, or given to fail by the thread: fail calls
\* std::process::exit(1).
run_return(f, ok) ==
    /\ main_pc \in SeqToSet(Lists)
    /\ f \in running
    /\ running' = running \ { f }
    /\ succeeded' = IF ok THEN succeeded \cup { f } ELSE succeeded
    /\ erred' = IF ok THEN erred ELSE erred \cup { f }
    /\ IF Propagates(ok)
       THEN /\ main_pc' = "exit"
            /\ exit_code' = Some(1)
       ELSE UNCHANGED << main_pc, exit_code >>
    /\ UNCHANGED << args, started >>
    /\ UNCHANGED << sessionVars, parseVars, scriptVars >>

\* The list is at its end: start goes on to the next one, and returns
\* Ok(()) after the last.
list_end ==
    /\ main_pc \in SeqToSet(Lists)
    /\ running = {}
    /\ SeqToSet(Files(main_pc)) \subseteq SeqToSet(started)
    /\ main_pc' = After(main_pc)
    /\ exit_code' = IF After(main_pc) = "exit" THEN Some(0) ELSE exit_code
    /\ UNCHANGED << args, started, running, succeeded, erred >>
    /\ UNCHANGED << sessionVars, parseVars, scriptVars >>

FileNames == SeqToSet(InputNames) \cup {"setup", "teardown"}

NextMain ==
    \/ \E f \in FileNames : run_call(f)
    \/ \E f \in FileNames : \E ok \in BOOLEAN : run_return(f, ok)
    \/ list_end

InitMain ==
    /\ SessionIdle
    /\ source = <<>> /\ included = <<>> /\ status = "unused" /\ lex = 1
    /\ cmd = <<>> /\ includes = <<>> /\ spliced = 0
    /\ MainInit
    /\ RunUnused /\ DelayUnused /\ InterpolateUnused

SpecMain == InitMain /\ [][NextMain]_vars

\* ------------------------------------------------------------ claims C31..C40
\* C36: with a logger attached, between two operations the log holds each
\* byte read from the child exactly once and in stream order, whatever
\* sequence of expect, check, is_matched, read and read_line calls read them.
\* (A byte the BufReader holds and has handed to nobody is not yet read.)
C36_LogOnceInOrder ==
    pc = "idle" =>
        \A written \in logged :
            written = Without(Range(1, nread), SeqToSet(bufreader))

\* C37: with expect_timeout None an expect never returns ExpectTimeout,
\* however long it has waited: it returns a match or Eof.
C37_NoTimeoutWithoutLimit ==
    (ExpectReturned /\ expect_timeout = None) =>
        result.kind \in {"Ok", "Eof"}

\* An expect without a timeout that returned Eof after the longest wait.
C37_Witness ==
    /\ ExpectReturned /\ expect_timeout = None
    /\ elapsed = MaxTicks
    /\ result = ErrEof

\* C38: the last pass of an expect decides its return: a match of the bytes
\* it checked is returned even when that pass saw the end of the stream or
\* the timeout has passed, the end of the stream without a match gives Eof,
\* and ExpectTimeout is returned only with neither a match nor the end of
\* the stream.
C38_MatchThenEofThenTimeout ==
    ExpectReturned =>
        LET found == NeedleCheck(needle, Content(Checked), searched.eof)
        IN  /\ result.kind \in {"Ok", "Eof", "ExpectTimeout"}
            /\ found # <<>> => result.kind = "Ok"
            /\ (found = <<>> /\ searched.eof) => result = ErrEof
            /\ result.kind = "ExpectTimeout" =>
                   /\ found = <<>> /\ ~searched.eof
                   /\ TimedOut(elapsed)

\* A match returned by the pass that saw the end of the stream, the timeout
\* having passed.
C38_Witness ==
    /\ ExpectReturned /\ result.kind = "Ok"
    /\ searched.eof /\ TimedOut(elapsed)

\* C39: a session wrapped with log() or tee() has the retained bytes, the
\* expect_timeout and the expect_lazy of the session that was wrapped.
C39_WrapKeepsSettings ==
    (pc = "done" /\ op = "swap_stream") =>
        /\ buffer = call.buffer
        /\ expect_timeout = call.timeout
        /\ expect_lazy = call.lazy

\* The kinds of the instructions executed so far.
ExecutedKinds == { instructions[executed[j][1]].kind : j \in 1..Len(executed) }

\* C34: with a finite expect timeout every run ends, as Ok or as Err,
\* whatever the child does and whichever instruction is being executed.
C34_RunEnds == <>(run_pc \in {"Ok", "Err"})

\* C35: when the instruction after a Wait starts, the prompt has been matched
\* and consumed, or the run has failed: a run that has only executed waits
\* and has not failed has been handed bytes of the child that hold the prompt.
C35_WaitConsumesPrompt ==
    (/\ run_pc \in {"exec", "eot", "Ok"}
     /\ executed # <<>>
     /\ ExecutedKinds \subseteq {"Wait", "WaitPrompt"}) =>
        NeedleCheck(Prompt, Content(delivered), FALSE) # <<>>

\* The input files, as a set.
Inputs == SeqToSet(args.input)

\* C33: with --parallel, the process that exits because an input script
\* erred exits after every input script has returned: none is left running
\* and none is left unrun.
C33_ParallelFailureWaits ==
    (main_pc = "exit" /\ args.parallel /\ erred \cap Inputs # {}) =>
        /\ running = {}
        /\ Inputs \subseteq succeeded \cup erred

\* The files in the order of the command: setup, input, teardown.
InOrder == args.setup \o args.input \o args.teardown

\* C40: without --parallel the scripts run one at a time in the order setup,
\* input, teardown, and the first failure ends the process with status 1:
\* no script is started after the one that erred.
C40_SequentialStopsAtFailure ==
    (main_pc # "unused" /\ ~args.parallel) =>
        /\ Cardinality(running) <= 1
        /\ Len(started) <= Len(InOrder)
        /\ started = Take(InOrder, Len(started))
        /\ erred # {} =>
              /\ main_pc = "exit" /\ exit_code = Some(1)
              /\ running = {}
              /\ erred = { started[Len(started)] }

\* A sequential run whose second script erred, the teardown being left
\* unrun.
C40_Witness ==
    /\ main_pc = "exit" /\ ~args.parallel
    /\ erred # {} /\ succeeded # {}
    /\ args.teardown # <<>>
    /\ "teardown" \notin SeqToSet(started)

\* The lines of a source.
RECURSIVE SplitLines(_)
SplitLines(s) ==
    IF s = <<>> THEN <<>>
    ELSE LET n == Run(s, 1, { c \in SeqToSet(s) : c # "\n" })
         IN  << Take(s, n) >> \o SplitLines(Drop(s, n + 1))

\* A line that is neither a directive nor a comment: its first character
\* after the blanks it may start with is not a #.
PlainLine(line) ==
    line # <<>> /\ At(line, Run(line, 1, Blanks) + 1) # "#"

\* C31: a script of lines that are neither directives nor comments parses
\* into one SendLine for each line, in order, whose text is the whole line,
\* whatever its characters after the first are.
C31_PlainLineSentVerbatim ==
    LET lines == SplitLines(source)
        sent == SelectSeq(lines, LAMBDA line : line # <<>>)
    IN  (/\ status \notin { "lexer", "unused" }
         /\ \A j \in 1..Len(lines) : lines[j] = <<>> \/ PlainLine(lines[j])) =>
            /\ status = "Ok"
            /\ cmd = [j \in 1..Len(sent) |-> Parsed("SendLine", sent[j])]

\* The keywords of the directives.
Keywords == { <<"w", "a", "i", "t">>, <<"s", "e", "n", "d", "l", "i", "n", "e">> }
\* The keyword of a line that starts with #$.
Keyword(line) ==
    LET start == 3 + Run(line, 3, Blanks)
        n == Run(line, start, { c \in SeqToSet(line) : c \notin Blanks })
    IN  SubSeq(line, start, start + n - 1)

\* C32: a script with a line that starts with #$ and whose keyword is not
\* that of a directive does not parse, wherever the line is: the parse ends
\* with UnknownInstruction and returns no instruction. (Scripts without a
\* pragma, whose own error may come first.)
C32_UnknownDirectiveFails ==
    LET lines == SplitLines(source)
    IN  (/\ status \notin { "lexer", "unused" }
         /\ "!" \notin SeqToSet(source)
         /\ \E j \in 1..Len(lines) :
                /\ Lit(lines[j], 1, <<"#", "$">>)
                /\ Keyword(lines[j]) \notin Keywords) =>
            /\ status = "UnknownInstruction"
            /\ cmd = <<>>

====
